---- MODULE Spec2Model ----
(***************************************************************************)
(* Model of the orchestration pipeline of src/mcp_client_api.py:           *)
(* gpt_agent_endpoint (plan -> execute -> derive-plan -> execute ->        *)
(* synthesize -> history write), call_mcp_tool_via_protocol and            *)
(* auto_chain_tiktok_video_analysis.                                       *)
(*                                                                         *)
(* Strings that the code builds with f"{a}_{b}_{c}" are modelled as the    *)
(* sequence of their "_"-separated tokens, so that joining is \o and       *)
(* str.startswith is a prefix test on token sequences.  The empty string   *)
(* is <<"">>; a missing value (Python None) is the empty sequence << >>.   *)
(***************************************************************************)
EXTENDS Integers, Sequences, FiniteSets, TLC

\* Most calls the oracle plans in one run (initial and derivative together).
MaxCalls == 2
\* Largest result mapping handed to the Chain Resolver on its own.
MaxEntries == 2

\* The most entries a session is let grow to.
MaxStored == 4

\* The largest limit asked of get_chat_history.
MaxLimit == 2

\* Python None for scalar fields.
None == "None"

-----------------------------------------------------------------------------
(* Strings as token sequences *)

NoneStr == << >>
EmptyStr == <<"">>

\* f"{x}" of a value that may be None.
Str(x) == IF x = NoneStr THEN <<"None">> ELSE x

\* Truthiness of a str-or-None value.
Truthy(x) == x # NoneStr /\ x # EmptyStr

\* str.lower(), token by token.
LowerTok(t) == CASE t = "TikTok" -> "tiktok" [] OTHER -> t

Lower(s) == [n \in 1..Len(s) |-> LowerTok(s[n])]

\* k.startswith(prefix)
StartsWith(k, prefix) == Len(k) >= Len(prefix) /\ SubSeq(k, 1, Len(prefix)) = prefix

-----------------------------------------------------------------------------
(* Values held in a result mapping *)

\* A mapping returned by a collaborator, with the three fields the code reads.
Dict(p, pu, fp) == [kind |-> "dict", play |-> p, play_url |-> pu, file_path |-> fp, text |-> None]

\* tool_result.content as the MCP client library returns it: a list, not a dict.
ListContent == [kind |-> "list", play |-> None, play_url |-> None, file_path |-> None, text |-> None]

\* A plain string entry (skip note, stringified exception).
StrVal(s) == [kind |-> "str", play |-> None, play_url |-> None, file_path |-> None, text |-> s]

\* results_dict[k] = v on an insertion-ordered dict.
Put(m, k, v) ==
    IF \E n \in 1..Len(m) : m[n].k = k
    THEN [n \in 1..Len(m) |-> IF m[n].k = k THEN [k |-> k, v |-> v] ELSE m[n]]
    ELSE Append(m, [k |-> k, v |-> v])

Keys(m) == {m[n].k : n \in 1..Len(m)}

\* {**a, **b}
Merge(a, b) ==
    LET RECURSIVE go(_, _)
        go(acc, n) == IF n > Len(b) THEN acc ELSE go(Put(acc, b[n].k, b[n].v), n + 1)
    IN go(a, 1)

-----------------------------------------------------------------------------
(* Result keys *)

SkippedKey(i) == <<"call", ToString(i), "skipped">>

ResultKey(platform, tool_name, i) == Str(platform) \o Str(tool_name) \o <<ToString(i)>>

ErrorKey(platform, tool_name, i) == Str(platform) \o Str(tool_name) \o <<ToString(i), "error">>

TiktokResultKey(i) == <<"tiktok", "download", "video", "result", ToString(i)>>

TiktokErrorKey(i) == <<"tiktok", "download", "video", "error", ToString(i)>>

AnalysisFromKey(fp) == <<"contentunderstanding", "analyze", "local", "video", "from", fp>>

DerivResultKey(platform, tool_name, i) == Str(platform) \o Str(tool_name) \o <<"deriv", ToString(i)>>

DerivErrorKey(platform, tool_name, i) == Str(platform) \o Str(tool_name) \o <<"deriv", ToString(i), "error">>

TiktokDerivResultKey(i) == <<"tiktok", "download", "video", "result", "deriv", ToString(i)>>

TiktokDerivErrorKey(i) == <<"tiktok", "download", "video", "error", "deriv", ToString(i)>>

AnalysisFromDerivKey(fp) == <<"contentunderstanding", "analyze", "local", "video", "from", fp, "deriv">>

AutoDownloadKey == <<"auto", "video", "download", "result">>

AutoAnalysisKey == <<"auto", "video", "analysis", "result">>

PlannedAnalysisPrefix == <<"contentunderstanding", "analyze", "local", "video">>

TiktokResultPrefix == <<"tiktok", "download", "video", "result">>

-----------------------------------------------------------------------------
(* Tool Registry and calls *)

MCP_SERVER_SCRIPTS == {<<"twitter">>, <<"tiktok">>, <<"linkedin">>, <<"contentunderstanding">>, <<"video", "download">>}

DownloadVideo == <<"download", "video">>

DownloadByUrl == <<"download", "video", "by", "url">>

AnalyzeLocalVideo == <<"analyze", "local", "video">>

\* One element of an oracle call list that is a JSON object.
Call(p, t) == [kind |-> "dict", platform |-> p, tool_name |-> t, params |-> "params"]

\* One element of an oracle call list that is no JSON object (call_info.get raises).
BadCall == [kind |-> "other", platform |-> NoneStr, tool_name |-> NoneStr, params |-> None]

-----------------------------------------------------------------------------
(* Inputs: what the oracle, the collaborators and the store may answer *)

\* The task in the request payload; "" is the missing/empty task.
Tasks == {"", "task one"}

\* Call-list elements the oracle may return.
PlannedCalls == {
    Call(<<"tiktok">>, <<"get", "video", "download", "url">>),
    Call(<<"tiktok">>, DownloadVideo),
    Call(<<"contentunderstanding">>, AnalyzeLocalVideo),
    Call(EmptyStr, <<"get", "user", "info">>),
    Call(<<"twitter">>, NoneStr),
    Call(<<"nosuch">>, <<"get", "user", "info">>),
    BadCall }

RECURSIVE SeqsUpTo(_, _)
SeqsUpTo(S, n) ==
    IF n = 0 THEN {<< >>}
    ELSE LET shorter == SeqsUpTo(S, n - 1)
         IN shorter \cup {Append(q, x) : q \in {r \in shorter : Len(r) = n - 1}, x \in S}

\* The "calls" / "derivative_calls" field of a reply: absent or null, a JSON list
\* of at most n elements, some other JSON value that is truthy ("other": a
\* non-empty string or object, a non-zero number) or falsy ("other_falsy": "", 0,
\* {}, false).
CallsFields(n) ==
    {[t |-> c, items |-> << >>] : c \in {"none", "other", "other_falsy"}}
    \cup {[t |-> "list", items |-> q] : q \in SeqsUpTo(PlannedCalls, n)}

\* A str that is not a str: a JSON number or object in a string-typed field.
NonStr == "<non-str>"

\* The "direct_answer_if_no_tools" field.
DirectAnswers == {None, "", "  ", "the answer", " padded answer ", NonStr}

\* str.strip()
Strip(x) ==
    CASE x = "  " -> ""
      [] x = " padded answer " -> "padded answer"
      [] OTHER -> x

\* x and isinstance(x, str) and x.strip()
NonBlankStr(x) == x # None /\ x # "" /\ x # NonStr /\ Strip(x) # ""

\* Replies of the oracle to a planning consultation, with call lists of at most
\* n elements: an error of the transport, content that is no JSON, JSON that is
\* no object, or a plan.
PlanReplies(n) ==
    {[kind |-> k, calls |-> [t |-> "none", items |-> << >>], direct |-> None] :
        k \in {"transport_error", "not_json", "not_object"}}
    \cup {[kind |-> "plan", calls |-> c, direct |-> d] : c \in CallsFields(n), d \in DirectAnswers}

\* Replies of the Planner.  A direct answer of every shape comes with a missing or
\* empty call list; next to a single call, or to a call field that is no list,
\* comes a plain direct answer or none.
PlannerReplies ==
    {r \in PlanReplies(MaxCalls) :
        \/ r.direct = None
        \/ r.calls.t = "none"
        \/ r.calls.t = "list" /\ r.calls.items = << >>
        \/ r.direct = "the answer" /\ Len(r.calls.items) <= 1}

\* Replies of the Derivative Planner when the Planner returned n calls: the run
\* plans at most MaxCalls calls in all.
DerivRepliesAfter == [n \in 0..MaxCalls |-> {r \in PlanReplies(MaxCalls - n) : r.direct = None}]

DerivReplies(n) == DerivRepliesAfter[n]

\* Replies of the oracle to the synthesis consultation: message content or an error.
SynthReplies == {[kind |-> "text", content |-> c] : c \in {"synthesized answer", ""}}
    \cup {[kind |-> "transport_error", content |-> None]}

\* What a collaborator process hands back for one tool call.
ToolResults == {ListContent, Dict("u1", None, None), Dict(None, None, "f1")}

\* Outcome of one collaborator invocation: a result, or an exception.
ToolOutcomes == {[raised |-> FALSE, value |-> v] : v \in ToolResults}
    \cup {[raised |-> TRUE, value |-> StrVal("collaborator error")]}

\* Outcome of one store command.
StoreOutcomes == {"ok", "fail"}

\* The expiry window of a session (3600 * 24 seconds), in ticks of the model.
TtlTicks == 2

Unset == "<unset>"

Stage1ErrorMsg == "Stage 1 failed"

Stage2ErrorMsg == "Stage 2 failed"

Stage3ErrorMsg == "Stage 3 failed"

-----------------------------------------------------------------------------
VARIABLES
    task,                 \* payload["task"]
    redis_client,         \* TRUE when the global redis_client is set
    pc,                   \* position of the run
    stage1_status, stage2_status, stage3_status,
    stage1_warning,       \* stage1_log has "warning_calls_format"
    stage2_warning,       \* stage2_log has a warning annotation (no statement of the code sets one)
    stage1_error, stage2_error, stage3_error,
    final_result,         \* agent_log["final_gpt_processed_result"]
    parsed_direct_answer, \* stage1_log["parsed_direct_answer"]
    initial_calls, initial_results,
    derivative_calls, derivative_results,
    i,                    \* loop index of the running batch
    batch_file_path,      \* file_path of the download_video branch
    caller,               \* who called the Chain Resolver
    play_url, file_path,  \* locals of the Chain Resolver
    invocations,          \* collaborator processes spawned, in order
    consulted,            \* oracle consultations made, in order
    store,                \* the Redis lists: session key -> entries
    expiry,               \* session key -> remaining time to live
    redis_log,            \* agent_log["redis_log"]
    returned,             \* the value returned to the caller
    final_gpt_response,   \* stage3_log["final_gpt_response"]
    chain_round,          \* which invocation of the Chain Resolver a direct caller is at
    chain_before,         \* the mapping that invocation was given
    chain_mark,           \* how many collaborator invocations preceded it
    peer,                 \* a second request in flight, suspended at one of its awaits
    index,                \* the chat_history_index request in flight
    response              \* the last response of a history endpoint

vars == <<task, redis_client, pc, stage1_status, stage2_status, stage3_status,
          stage1_warning, stage2_warning, stage1_error, stage2_error, stage3_error, final_result,
          parsed_direct_answer, initial_calls, initial_results, derivative_calls,
          derivative_results, i, batch_file_path, caller, play_url, file_path,
          invocations, consulted, store, expiry, redis_log, returned,
          final_gpt_response, chain_round, chain_before, chain_mark,
          peer, index, response>>

harness_vars == <<chain_round, chain_before, chain_mark>>

service_vars == <<peer, index, response>>

stage_vars == <<stage1_status, stage2_status, stage3_status, stage1_warning, stage2_warning,
                stage1_error, stage2_error, stage3_error>>

plan_vars == <<parsed_direct_answer, initial_calls, derivative_calls>>

chain_vars == <<caller, play_url, file_path>>

redis_vars == <<store, expiry, redis_log>>

\* hashlib.md5(task.encode("utf-8")).hexdigest(), taken as injective.
Md5(t) == <<"md5", t>>

SessionKey(t) == <<"multi_agent_history">> \o Md5(t)

\* A task served by an earlier run of the process.
OtherTask == "task two"

\* The sessions the store may hold.
SessionKeys == {SessionKey(t) : t \in (Tasks \ {""}) \cup {OtherTask}}

InitLocals ==
    /\ stage1_status = "absent" /\ stage2_status = "absent" /\ stage3_status = "absent"
    /\ stage1_warning = FALSE /\ stage2_warning = FALSE
    /\ stage1_error = Unset /\ stage2_error = Unset /\ stage3_error = Unset
    /\ final_result = Unset
    /\ parsed_direct_answer = None
    /\ initial_calls = << >>
    /\ derivative_calls = << >> /\ derivative_results = << >>
    /\ i = 0
    /\ batch_file_path = None
    /\ play_url = None /\ file_path = None
    /\ invocations = << >>
    /\ consulted = << >>
    /\ redis_log = << >>
    /\ returned = Unset
    /\ final_gpt_response = Unset

\* No second request, no index request in flight, no endpoint response yet.
NoPeer == [pc |-> "none", task |-> None, final_result |-> Unset, redis_log |-> << >>,
           returned |-> Unset]

NoIndex == [at |-> "idle", keys |-> << >>, sessions |-> << >>, seen |-> << >>, steady |-> TRUE]

NoResponse == [op |-> "none", status |-> 0]

InitService == peer = NoPeer /\ index = NoIndex /\ response = NoResponse

\* The process after lifespan start-up, with one request about to be served.
Init ==
    /\ InitService
    /\ task \in Tasks
    /\ redis_client \in BOOLEAN
    /\ store = [k \in SessionKeys |-> << >>]
    /\ expiry = [k \in SessionKeys |-> 0]
    /\ pc = "request"
    /\ caller = "none"
    /\ initial_results = << >>
    /\ InitLocals
    /\ chain_round = 0 /\ chain_before = << >> /\ chain_mark = 0

-----------------------------------------------------------------------------
(* call_mcp_tool_via_protocol *)

\* MCP_SERVER_SCRIPTS.get(platform.lower()) finds a script.
Configured(platform) == Lower(platform) \in MCP_SERVER_SCRIPTS

\* The record of one spawned collaborator process.
Invocation(platform, tool_name, arg, by, stage) ==
    [platform |-> platform, tool_name |-> tool_name, arg |-> arg, by |-> by, stage |-> stage]

-----------------------------------------------------------------------------
(* gpt_agent_endpoint: request and Stage 1 *)

GptAgentRequest ==
    /\ pc = "request"
    /\ IF task = ""
       THEN /\ pc' = "raised"
            /\ UNCHANGED stage1_status
       ELSE /\ pc' = "stage1"
            /\ stage1_status' = "pending"
    /\ UNCHANGED <<task, redis_client, service_vars, harness_vars, final_gpt_response, stage2_status, stage3_status, stage1_warning, stage2_warning,
                   stage1_error, stage2_error, stage3_error, final_result, plan_vars,
                   initial_results, derivative_results, i, batch_file_path, chain_vars,
                   invocations, consulted, redis_vars, returned>>

\* The outer except of Stage 1.
Stage1Failed ==
    /\ stage1_status' = "failed"
    /\ stage1_error' = Stage1ErrorMsg
    /\ final_result' = Stage1ErrorMsg
    /\ pc' = "stage2"

\* Entry of Stage 2: the stage-2 sub-record is created.
Stage1Plan(reply) ==
    /\ pc = "stage1"
    /\ consulted' = Append(consulted, "planner")
    /\ IF reply.kind # "plan"
       THEN /\ Stage1Failed
            /\ UNCHANGED <<stage1_warning, plan_vars, i>>
       ELSE LET calls == IF reply.calls.t = "list" THEN reply.calls.items ELSE << >>
            IN /\ stage1_warning' = (reply.calls.t \in {"other", "other_falsy"})
               /\ initial_calls' = calls
               /\ parsed_direct_answer' = reply.direct
               /\ UNCHANGED <<derivative_calls, stage1_error>>
               /\ IF NonBlankStr(reply.direct) /\ calls = << >>
                  THEN /\ final_result' = reply.direct
                       /\ stage1_status' = "completed_direct_answer"
                       /\ pc' = "stage2"
                       /\ UNCHANGED i
                  ELSE IF calls # << >>
                  THEN /\ pc' = "s1_loop"
                       /\ i' = 0
                       /\ UNCHANGED <<final_result, stage1_status>>
                  ELSE /\ stage1_status' = "completed_no_action_plan"
                       /\ pc' = "stage2"
                       /\ UNCHANGED <<final_result, i>>
    /\ UNCHANGED <<task, redis_client, service_vars, harness_vars, final_gpt_response, stage2_status, stage3_status, stage2_warning, stage2_error,
                   stage3_error, initial_results, derivative_results, batch_file_path,
                   chain_vars, invocations, redis_vars, returned>>

\* What the loop step of either batch leaves alone.
batch_frame == <<task, redis_client, service_vars, harness_vars, final_gpt_response, stage1_warning, stage2_warning, stage3_status, stage3_error,
                 plan_vars, chain_vars, consulted, redis_vars, returned>>

\* One iteration of the Stage 1 loop, up to the collaborator invocation.
Stage1Call ==
    /\ pc = "s1_loop"
    /\ i < Len(initial_calls)
    /\ LET call_info == initial_calls[i + 1]
           platform == Lower(call_info.platform)
           tool_name == call_info.tool_name
       IN IF call_info.kind # "dict" \/ call_info.platform = NoneStr
          THEN /\ Stage1Failed
               /\ UNCHANGED <<initial_results, i, invocations>>
          ELSE /\ UNCHANGED <<stage1_status, stage1_error, final_result>>
               /\ IF ~Truthy(platform) \/ ~Truthy(tool_name)
                  THEN /\ initial_results' = Put(initial_results, SkippedKey(i), StrVal("Invalid/Missing platform or tool_name"))
                       /\ i' = i + 1
                       /\ pc' = "s1_loop"
                       /\ UNCHANGED invocations
                  ELSE IF ~Configured(platform)
                  THEN /\ initial_results' = Put(initial_results, ErrorKey(platform, tool_name, i), StrVal("not configured"))
                       /\ i' = i + 1
                       /\ pc' = "s1_loop"
                       /\ UNCHANGED invocations
                  ELSE /\ invocations' = Append(invocations, Invocation(platform, tool_name, call_info.params, "planned", "stage1"))
                       /\ pc' = "s1_await"
                       /\ UNCHANGED <<initial_results, i>>
    /\ UNCHANGED <<stage2_status, stage2_error, derivative_results, batch_file_path>>
    /\ UNCHANGED batch_frame

\* The collaborator invoked by a Stage 1 call answers.
Stage1CallReturn(outcome) ==
    /\ pc = "s1_await"
    /\ LET call_info == initial_calls[i + 1]
           platform == Lower(call_info.platform)
           tool_name == call_info.tool_name
           error_entry == Put(initial_results, ErrorKey(platform, tool_name, i), StrVal("error"))
       IN IF platform = <<"tiktok">> /\ tool_name = DownloadVideo
          THEN IF outcome.raised \/ outcome.value.kind # "dict"
               THEN /\ initial_results' = error_entry
                    /\ i' = i + 1
                    /\ pc' = "s1_loop"
                    /\ UNCHANGED <<invocations, batch_file_path>>
               ELSE LET recorded == Put(initial_results, TiktokResultKey(i), outcome.value)
                    IN IF outcome.value.file_path # None
                       THEN /\ initial_results' = recorded
                            /\ batch_file_path' = outcome.value.file_path
                            /\ invocations' = Append(invocations, Invocation(<<"contentunderstanding">>, AnalyzeLocalVideo, outcome.value.file_path, "planned", "stage1"))
                            /\ pc' = "s1_await_analysis"
                            /\ UNCHANGED i
                       ELSE /\ initial_results' = Put(recorded, TiktokErrorKey(i), StrVal("No file_path returned"))
                            /\ i' = i + 1
                            /\ pc' = "s1_loop"
                            /\ UNCHANGED <<invocations, batch_file_path>>
          ELSE /\ initial_results' = IF outcome.raised THEN error_entry
                                     ELSE Put(initial_results, ResultKey(platform, tool_name, i), outcome.value)
               /\ i' = i + 1
               /\ pc' = "s1_loop"
               /\ UNCHANGED <<invocations, batch_file_path>>
    /\ UNCHANGED <<stage1_status, stage1_error, final_result, stage2_status, stage2_error,
                   derivative_results>>
    /\ UNCHANGED batch_frame

\* The analysis that follows a planned tiktok download_video in Stage 1 answers.
Stage1AnalysisReturn(outcome) ==
    /\ pc = "s1_await_analysis"
    /\ initial_results' =
           IF outcome.raised
           THEN Put(initial_results, ErrorKey(<<"tiktok">>, DownloadVideo, i), StrVal("error"))
           ELSE Put(initial_results, AnalysisFromKey(batch_file_path), outcome.value)
    /\ i' = i + 1
    /\ batch_file_path' = None
    /\ pc' = "s1_loop"
    /\ UNCHANGED <<stage1_status, stage1_error, final_result, stage2_status, stage2_error,
                   derivative_results, invocations>>
    /\ UNCHANGED batch_frame

\* Fault variant of Stage1EnterChain: the Chain Resolver may be called before the
\* loop is over.
Stage1EnterChainEarly ==
    /\ pc = "s1_loop"
    /\ i <= Len(initial_calls)
    /\ caller' = "stage1"
    /\ pc' = "chain"
    /\ UNCHANGED <<task, redis_client, service_vars, harness_vars, final_gpt_response, stage_vars, final_result, plan_vars, initial_results,
                   derivative_results, i, batch_file_path, play_url, file_path,
                   invocations, consulted, redis_vars, returned>>

\* The Stage 1 loop is over: the Chain Resolver is called on initial_results.
Stage1EnterChain ==
    /\ pc = "s1_loop"
    /\ i = Len(initial_calls)
    /\ caller' = "stage1"
    /\ pc' = "chain"
    /\ UNCHANGED <<task, redis_client, service_vars, harness_vars, final_gpt_response, stage_vars, final_result, plan_vars, initial_results,
                   derivative_results, i, batch_file_path, play_url, file_path,
                   invocations, consulted, redis_vars, returned>>

\* any(k.startswith("tiktok_download_video_result_") for k in initial_results)
HasTiktokResult(m) == \E k \in Keys(m) : StartsWith(k, TiktokResultPrefix) /\ Len(k) > Len(TiktokResultPrefix)

\* The status Stage 1 takes once its batch and the Chain Resolver are done.
Stage1BatchStatus(m) ==
    IF HasTiktokResult(m) THEN "completed_pending_download_analysis"
    ELSE IF m # << >> THEN "completed_with_calls"
    ELSE "completed_no_effective_calls"

\* The Chain Resolver returned to Stage 1, or raised into its outer except.
Stage1AfterChain ==
    /\ caller = "stage1"
    /\ \/ /\ pc = "chain_ret"
          /\ stage1_status' = Stage1BatchStatus(initial_results)
          /\ pc' = "stage2"
          /\ UNCHANGED <<stage1_error, final_result>>
       \/ /\ pc = "chain_raised"
          /\ Stage1Failed
    /\ caller' = "none" /\ play_url' = None /\ file_path' = None
    /\ UNCHANGED <<task, redis_client, service_vars, harness_vars, final_gpt_response, stage2_status, stage3_status, stage1_warning, stage2_warning,
                   stage2_error, stage3_error, plan_vars, initial_results,
                   derivative_results, i, batch_file_path, invocations, consulted,
                   redis_vars, returned>>

-----------------------------------------------------------------------------
(* auto_chain_tiktok_video_analysis *)

\* The mapping the Chain Resolver was given (the caller's dict, by reference).
ChainResults == IF caller = "stage2" THEN derivative_results ELSE initial_results

SetChainResults(m) ==
    IF caller = "stage2"
    THEN derivative_results' = m /\ UNCHANGED initial_results
    ELSE initial_results' = m /\ UNCHANGED derivative_results

\* Fault variant of ScanPlayUrl: the scan stops at the first value that carries a
\* locator.
RECURSIVE ScanPlayFirst(_, _)
ScanPlayFirst(m, n) ==
    IF n = 0 THEN None
    ELSE LET v == m[n].v
             before == ScanPlayFirst(m, n - 1)
         IN IF before # None THEN before
            ELSE IF v.kind = "dict" /\ v.play_url # None THEN v.play_url
            ELSE IF v.kind = "dict" THEN v.play
            ELSE None

\* Fault variant of ScanPlayUrl: the scan reads the field play only.
RECURSIVE ScanPlayOnly(_, _)
ScanPlayOnly(m, n) ==
    IF n = 0 THEN None
    ELSE IF m[n].v.kind = "dict" /\ m[n].v.play # None THEN m[n].v.play
    ELSE ScanPlayOnly(m, n - 1)

\* The scan loop: the value of play_url after the values m[1..n] were visited.
RECURSIVE ScanPlayUrl(_, _)
ScanPlayUrl(m, n) ==
    IF n = 0 THEN None
    ELSE LET v == m[n].v
             before == ScanPlayUrl(m, n - 1)
             after_play == IF v.kind = "dict" /\ v.play # None THEN v.play ELSE before
         IN IF v.kind = "dict" /\ v.play_url # None THEN v.play_url ELSE after_play

\* The scan loop: the value of file_path after the values m[1..n] were visited.
RECURSIVE ScanFilePath(_, _)
ScanFilePath(m, n) ==
    IF n = 0 THEN None
    ELSE LET v == m[n].v
         IN IF v.kind = "dict" /\ v.file_path # None THEN v.file_path ELSE ScanFilePath(m, n - 1)

\* Fault variant of HasAnalysisKey: only the auto-injected label is looked for.
HasAutoAnalysisKeyOnly(m) == \E k \in Keys(m) : StartsWith(k, AutoAnalysisKey)

\* any(k ... startswith("contentunderstanding_analyze_local_video") or startswith("auto_video_analysis_result"))
HasAnalysisKey(m) ==
    \E k \in Keys(m) : StartsWith(k, PlannedAnalysisPrefix) \/ StartsWith(k, AutoAnalysisKey)

\* Fault variant of ChainAnalysisStep: the Chain Resolver never invokes the analysis.
ChainNoAnalysis(m, fp) ==
    /\ pc' = "chain_ret"
    /\ UNCHANGED invocations

\* The second if of the Chain Resolver: invoke the analysis, or return.
ChainAnalysisStep(m, fp) ==
    IF fp # None /\ ~HasAnalysisKey(m)
    THEN /\ invocations' = Append(invocations, Invocation(<<"contentunderstanding">>, AnalyzeLocalVideo, fp, "chain", caller))
         /\ pc' = "chain_await_analysis"
    ELSE /\ pc' = "chain_ret"
         /\ UNCHANGED invocations

chain_frame == <<task, redis_client, service_vars, harness_vars, final_gpt_response, stage_vars, final_result, plan_vars, i,
                 batch_file_path, caller, consulted, redis_vars, returned>>

\* Entry of the Chain Resolver: the scan, then the download or the analysis step.
ChainScan ==
    /\ pc = "chain"
    /\ LET m == ChainResults
           url == ScanPlayUrl(m, Len(m))
           fp == ScanFilePath(m, Len(m))
       IN /\ play_url' = url
          /\ file_path' = fp
          /\ IF url # None
             THEN /\ invocations' = Append(invocations, Invocation(<<"video", "download">>, DownloadByUrl, url, "chain", caller))
                  /\ pc' = "chain_await_download"
             ELSE ChainAnalysisStep(m, fp)
    /\ UNCHANGED <<initial_results, derivative_results>>
    /\ UNCHANGED chain_frame

\* The download collaborator answers.
ChainDownloadReturn(outcome) ==
    /\ pc = "chain_await_download"
    /\ IF outcome.raised
       THEN /\ pc' = "chain_raised"
            /\ UNCHANGED <<initial_results, derivative_results, file_path, invocations>>
       ELSE LET m == Put(ChainResults, AutoDownloadKey, outcome.value)
            IN /\ SetChainResults(m)
               /\ IF outcome.value.kind # "dict"
                  THEN /\ pc' = "chain_raised"
                       /\ UNCHANGED <<file_path, invocations>>
                  ELSE /\ file_path' = outcome.value.file_path
                       /\ ChainAnalysisStep(m, outcome.value.file_path)
    /\ UNCHANGED play_url
    /\ UNCHANGED chain_frame

\* The analysis collaborator answers.
ChainAnalysisReturn(outcome) ==
    /\ pc = "chain_await_analysis"
    /\ IF outcome.raised
       THEN /\ pc' = "chain_raised"
            /\ UNCHANGED <<initial_results, derivative_results>>
       ELSE /\ SetChainResults(Put(ChainResults, AutoAnalysisKey, outcome.value))
            /\ pc' = "chain_ret"
    /\ UNCHANGED <<play_url, file_path, invocations>>
    /\ UNCHANGED chain_frame

-----------------------------------------------------------------------------
(* gpt_agent_endpoint: Stage 2 *)

\* Fault variant of SkipsLaterStages: a failed Stage 1 does not stop the later stages.
SkipsAfterDirectOnly(status) == status = "completed_direct_answer"

\* Fault variant of SkipsLaterStages: a Stage 1 without an action plan also stops
\* the later stages.
SkipsWithoutPlan(status) ==
    status \in {"completed_direct_answer", "failed", "completed_no_action_plan"}

\* stage1_log.get("status") in ["completed_direct_answer", "failed"]: Stage 2
\* plans nothing and Stage 3 synthesizes nothing.
SkipsLaterStages(status) == status \in {"completed_direct_answer", "failed"}

\* Fault variant of Stage2Failed: Stage 2 has no outer except, the exception leaves
\* the endpoint.
Stage2Escapes ==
    /\ pc' = "raised"
    /\ UNCHANGED <<stage2_status, stage2_error>>

\* The outer except of Stage 2.
Stage2Failed ==
    /\ stage2_status' = "failed"
    /\ stage2_error' = Stage2ErrorMsg
    /\ pc' = "stage3"

\* Stage 2 when Stage 1 ended with a direct answer or failed: nothing is planned.
Stage2Skip ==
    /\ pc = "stage2"
    /\ SkipsLaterStages(stage1_status)
    /\ stage2_status' = "pending"
    /\ pc' = "stage3"
    /\ UNCHANGED <<task, redis_client, service_vars, harness_vars, final_gpt_response, stage1_status, stage3_status, stage1_warning, stage2_warning,
                   stage1_error, stage2_error, stage3_error, final_result, plan_vars,
                   initial_results, derivative_results, i, batch_file_path, chain_vars,
                   invocations, consulted, redis_vars, returned>>

\* The Derivative Planner is consulted and its reply parsed.
Stage2Plan(reply) ==
    /\ pc = "stage2"
    /\ ~SkipsLaterStages(stage1_status)
    /\ consulted' = Append(consulted, "derivative")
    /\ IF reply.kind # "plan" \/ reply.calls.t = "other"
       THEN /\ Stage2Failed
            /\ UNCHANGED <<derivative_calls, i>>
       ELSE /\ derivative_calls' = reply.calls.items
            /\ stage2_status' = "pending"
            /\ UNCHANGED stage2_error
            /\ IF reply.calls.items # << >>
               THEN pc' = "s2_loop" /\ i' = 0
               ELSE pc' = "stage3" /\ UNCHANGED i
    /\ UNCHANGED <<task, redis_client, service_vars, harness_vars, final_gpt_response, stage1_status, stage3_status, stage1_warning, stage2_warning,
                   stage1_error, stage3_error, final_result, parsed_direct_answer,
                   initial_calls, initial_results, derivative_results, batch_file_path,
                   chain_vars, invocations, redis_vars, returned>>

\* One iteration of the Stage 2 loop, up to the collaborator invocation.
Stage2Call ==
    /\ pc = "s2_loop"
    /\ i < Len(derivative_calls)
    /\ LET call_info == derivative_calls[i + 1]
           platform == Lower(call_info.platform)
           tool_name == call_info.tool_name
       IN IF call_info.kind # "dict" \/ call_info.platform = NoneStr
          THEN /\ Stage2Failed
               /\ UNCHANGED <<derivative_results, i, invocations>>
          ELSE /\ UNCHANGED <<stage2_status, stage2_error>>
               /\ IF ~Configured(platform)
                  THEN /\ derivative_results' = Put(derivative_results, DerivErrorKey(platform, tool_name, i), StrVal("not configured"))
                       /\ i' = i + 1
                       /\ pc' = "s2_loop"
                       /\ UNCHANGED invocations
                  ELSE /\ invocations' = Append(invocations, Invocation(platform, tool_name, call_info.params, "planned", "stage2"))
                       /\ pc' = "s2_await"
                       /\ UNCHANGED <<derivative_results, i>>
    /\ UNCHANGED <<stage1_status, stage1_error, final_result, initial_results, batch_file_path>>
    /\ UNCHANGED batch_frame

\* The collaborator invoked by a Stage 2 call answers.
Stage2CallReturn(outcome) ==
    /\ pc = "s2_await"
    /\ LET call_info == derivative_calls[i + 1]
           platform == Lower(call_info.platform)
           tool_name == call_info.tool_name
       IN IF platform = <<"tiktok">> /\ tool_name = DownloadVideo
          THEN IF outcome.raised \/ outcome.value.kind # "dict"
               THEN /\ Stage2Failed
                    /\ UNCHANGED <<derivative_results, i, invocations, batch_file_path>>
               ELSE LET recorded == Put(derivative_results, TiktokDerivResultKey(i), outcome.value)
                    IN /\ UNCHANGED <<stage2_status, stage2_error>>
                       /\ IF outcome.value.file_path # None
                          THEN /\ derivative_results' = recorded
                               /\ batch_file_path' = outcome.value.file_path
                               /\ invocations' = Append(invocations, Invocation(<<"contentunderstanding">>, AnalyzeLocalVideo, outcome.value.file_path, "planned", "stage2"))
                               /\ pc' = "s2_await_analysis"
                               /\ UNCHANGED i
                          ELSE /\ derivative_results' = Put(recorded, TiktokDerivErrorKey(i), StrVal("No file_path returned"))
                               /\ i' = i + 1
                               /\ pc' = "s2_loop"
                               /\ UNCHANGED <<invocations, batch_file_path>>
          ELSE /\ derivative_results' =
                      IF outcome.raised
                      THEN Put(derivative_results, DerivErrorKey(platform, tool_name, i), StrVal("error"))
                      ELSE Put(derivative_results, DerivResultKey(platform, tool_name, i), outcome.value)
               /\ i' = i + 1
               /\ pc' = "s2_loop"
               /\ UNCHANGED <<stage2_status, stage2_error, invocations, batch_file_path>>
    /\ UNCHANGED <<stage1_status, stage1_error, final_result, initial_results>>
    /\ UNCHANGED batch_frame

\* The analysis that follows a planned tiktok download_video in Stage 2 answers.
Stage2AnalysisReturn(outcome) ==
    /\ pc = "s2_await_analysis"
    /\ IF outcome.raised
       THEN /\ Stage2Failed
            /\ UNCHANGED <<derivative_results, i>>
       ELSE /\ derivative_results' = Put(derivative_results, AnalysisFromDerivKey(batch_file_path), outcome.value)
            /\ i' = i + 1
            /\ pc' = "s2_loop"
            /\ UNCHANGED <<stage2_status, stage2_error>>
    /\ batch_file_path' = None
    /\ UNCHANGED <<stage1_status, stage1_error, final_result, initial_results, invocations>>
    /\ UNCHANGED batch_frame

\* The Stage 2 loop is over: the Chain Resolver is called on derivative_results.
Stage2EnterChain ==
    /\ pc = "s2_loop"
    /\ i = Len(derivative_calls)
    /\ caller' = "stage2"
    /\ pc' = "chain"
    /\ UNCHANGED <<task, redis_client, service_vars, harness_vars, final_gpt_response, stage_vars, final_result, plan_vars, initial_results,
                   derivative_results, i, batch_file_path, play_url, file_path,
                   invocations, consulted, redis_vars, returned>>

\* The Chain Resolver returned to Stage 2, or raised into its outer except.
Stage2AfterChain ==
    /\ caller = "stage2"
    /\ \/ /\ pc = "chain_ret"
          /\ stage2_status' = "completed"
          /\ pc' = "stage3"
          /\ UNCHANGED stage2_error
       \/ /\ pc = "chain_raised"
          /\ Stage2Failed
    /\ caller' = "none" /\ play_url' = None /\ file_path' = None
    /\ UNCHANGED <<task, redis_client, service_vars, harness_vars, final_gpt_response, stage1_status, stage3_status, stage1_warning, stage2_warning,
                   stage1_error, stage3_error, final_result, plan_vars, initial_results,
                   derivative_results, i, batch_file_path, invocations, consulted,
                   redis_vars, returned>>

-----------------------------------------------------------------------------
(* gpt_agent_endpoint: Stage 3 *)

\* {**initial_results, **derivative_results}
all_collated_results == Merge(initial_results, derivative_results)

\* Fault variant of FinalBeforeSynthesis: the wipe also hits a direct answer.
FinalWipedAlways == ""

\* The wipe before Stage 3: the final answer survives only for a direct answer.
FinalBeforeSynthesis ==
    IF stage1_status # "completed_direct_answer" THEN "" ELSE final_result

stage3_frame == <<task, redis_client, service_vars, harness_vars, stage1_status, stage2_status, stage1_warning, stage2_warning,
                  stage1_error, stage2_error, plan_vars, initial_results,
                  derivative_results, i, batch_file_path, chain_vars, invocations,
                  redis_vars, returned>>

\* Fault variant of Stage3Failed: the error is logged but is not made the answer.
Stage3FailedNoAnswer ==
    /\ stage3_status' = "failed"
    /\ stage3_error' = Stage3ErrorMsg
    /\ final_result' = ""

\* The except of Stage 3.
Stage3Failed ==
    /\ stage3_status' = "failed"
    /\ stage3_error' = Stage3ErrorMsg
    /\ final_result' = Stage3ErrorMsg

\* Stage 3 when Stage 1 ended with a direct answer or failed: no synthesis.
Stage3Skip ==
    /\ pc = "stage3"
    /\ SkipsLaterStages(stage1_status)
    /\ stage3_status' = "pending"
    /\ final_result' = FinalBeforeSynthesis
    /\ pc' = "redis"
    /\ UNCHANGED <<stage3_error, consulted, final_gpt_response>>
    /\ UNCHANGED stage3_frame

\* The Synthesizer is consulted.
Stage3Synthesize(reply) ==
    /\ pc = "stage3"
    /\ ~SkipsLaterStages(stage1_status)
    /\ consulted' = Append(consulted, "synthesizer")
    /\ IF reply.kind = "text"
       THEN /\ final_gpt_response' = reply.content
            /\ final_result' = reply.content
            /\ stage3_status' = "completed"
            /\ UNCHANGED stage3_error
       ELSE /\ Stage3Failed
            /\ UNCHANGED final_gpt_response
    /\ pc' = "redis"
    /\ UNCHANGED stage3_frame

-----------------------------------------------------------------------------
(* gpt_agent_endpoint: the history write and the return *)

\* return agent_log.get("final_gpt_processed_result", "")
ReturnValue == IF final_result = Unset THEN "" ELSE final_result

redis_frame == <<task, redis_client, service_vars, harness_vars, final_gpt_response, stage_vars, final_result, plan_vars, initial_results,
                 derivative_results, i, batch_file_path, chain_vars, invocations,
                 consulted>>

\* The condition of the history write.
WillWriteHistory == redis_client /\ NonBlankStr(final_result) /\ final_result # Unset

\* Fault variant of RedisSkip: the write is skipped without a note.
RedisSkipSilent ==
    /\ pc = "redis"
    /\ ~WillWriteHistory
    /\ returned' = ReturnValue
    /\ pc' = "done"
    /\ UNCHANGED <<store, expiry, redis_log>>
    /\ UNCHANGED redis_frame

\* No store, or no answer worth storing: a note, and the run returns.
RedisSkip ==
    /\ pc = "redis"
    /\ ~WillWriteHistory
    /\ redis_log' = Append(redis_log, IF ~redis_client THEN "Redis client not available"
                                      ELSE "No final answer processed")
    /\ returned' = ReturnValue
    /\ pc' = "done"
    /\ UNCHANGED <<store, expiry>>
    /\ UNCHANGED redis_frame

\* Fault variant of RedisRpush: the answer is stored stripped of its blanks.
RedisRpushStripped(outcome) ==
    /\ pc = "redis"
    /\ WillWriteHistory
    /\ IF outcome = "ok"
       THEN /\ store' = [store EXCEPT ![SessionKey(task)] =
                              @ \o <<[role |-> "user", content |-> task],
                                     [role |-> "assistant", content |-> Strip(final_result)]>>]
            /\ pc' = "redis_expire"
            /\ UNCHANGED <<redis_log, returned>>
       ELSE /\ redis_log' = Append(redis_log, "Error writing to Redis")
            /\ returned' = ReturnValue
            /\ pc' = "done"
            /\ UNCHANGED store
    /\ UNCHANGED expiry
    /\ UNCHANGED redis_frame

\* Fault variant of RedisRpush: the user entry is pushed on its own.
RedisRpushUserOnly(outcome) ==
    /\ pc = "redis"
    /\ WillWriteHistory
    /\ IF outcome = "ok"
       THEN /\ store' = [store EXCEPT ![SessionKey(task)] =
                              @ \o <<[role |-> "user", content |-> task]>>]
            /\ pc' = "redis_expire"
            /\ UNCHANGED <<redis_log, returned>>
       ELSE /\ redis_log' = Append(redis_log, "Error writing to Redis")
            /\ returned' = ReturnValue
            /\ pc' = "done"
            /\ UNCHANGED store
    /\ UNCHANGED expiry
    /\ UNCHANGED redis_frame

\* redis_client.rpush(session_key, user entry, assistant entry)
RedisRpush(outcome) ==
    /\ pc = "redis"
    /\ WillWriteHistory
    /\ IF outcome = "ok"
       THEN /\ store' = [store EXCEPT ![SessionKey(task)] =
                              @ \o <<[role |-> "user", content |-> task],
                                     [role |-> "assistant", content |-> final_result]>>]
            /\ pc' = "redis_expire"
            /\ UNCHANGED <<redis_log, returned>>
       ELSE /\ redis_log' = Append(redis_log, "Error writing to Redis")
            /\ returned' = ReturnValue
            /\ pc' = "done"
            /\ UNCHANGED store
    /\ UNCHANGED expiry
    /\ UNCHANGED redis_frame

\* EXPIRE of the store: the key gets the window; a key that does not exist is
\* left alone, and the command still succeeds.
SetExpiry(k) == IF store[k] = << >> THEN expiry ELSE [expiry EXCEPT ![k] = TtlTicks]

\* Fault variant of RedisExpire: a failing command is not caught.
RedisExpireEscapes(outcome) ==
    /\ pc = "redis_expire"
    /\ IF outcome = "ok"
       THEN /\ expiry' = SetExpiry(SessionKey(task))
            /\ redis_log' = Append(redis_log, "Conversation history written to Redis")
            /\ returned' = ReturnValue
            /\ pc' = "done"
       ELSE /\ pc' = "raised"
            /\ UNCHANGED <<expiry, redis_log, returned>>
    /\ UNCHANGED store
    /\ UNCHANGED redis_frame

\* redis_client.expire(session_key, 3600 * 24)
RedisExpire(outcome) ==
    /\ pc = "redis_expire"
    /\ IF outcome = "ok"
       THEN /\ expiry' = SetExpiry(SessionKey(task))
            /\ redis_log' = Append(redis_log, "Conversation history written to Redis")
       ELSE /\ redis_log' = Append(redis_log, "Error writing to Redis")
            /\ UNCHANGED expiry
    /\ returned' = ReturnValue
    /\ pc' = "done"
    /\ UNCHANGED store
    /\ UNCHANGED redis_frame

-----------------------------------------------------------------------------
Next ==
    \/ GptAgentRequest
    \/ pc = "stage1" /\ \E reply \in PlannerReplies : Stage1Plan(reply)
    \/ Stage1Call
    \/ \E outcome \in ToolOutcomes : Stage1CallReturn(outcome)
    \/ \E outcome \in ToolOutcomes : Stage1AnalysisReturn(outcome)
    \/ Stage1EnterChain
    \/ Stage1AfterChain
    \/ ChainScan
    \/ \E outcome \in ToolOutcomes : ChainDownloadReturn(outcome)
    \/ \E outcome \in ToolOutcomes : ChainAnalysisReturn(outcome)
    \/ Stage2Skip
    \/ pc = "stage2" /\ \E reply \in DerivReplies(Len(initial_calls)) : Stage2Plan(reply)
    \/ Stage2Call
    \/ \E outcome \in ToolOutcomes : Stage2CallReturn(outcome)
    \/ \E outcome \in ToolOutcomes : Stage2AnalysisReturn(outcome)
    \/ Stage2EnterChain
    \/ Stage2AfterChain
    \/ Stage3Skip
    \/ \E reply \in SynthReplies : Stage3Synthesize(reply)
    \/ RedisSkip
    \/ \E outcome \in StoreOutcomes : RedisRpush(outcome)
    \/ \E outcome \in StoreOutcomes : RedisExpire(outcome)

Spec == Init /\ [][Next]_vars

-----------------------------------------------------------------------------
(* The Chain Resolver on its own: auto_chain_tiktok_video_analysis(results_dict) *)
(* called on a given mapping, and called again on the mapping it returned.      *)

\* Keys of the mappings given: two planned results, the two chain labels, and the
\* error entry of a planned analysis.
ChainEntryKeys == {
    <<"tiktok", "get", "video", "download", "url", "0">>,
    <<"tiktok", "search", "account", "1">>,
    AutoDownloadKey,
    AutoAnalysisKey,
    <<"contentunderstanding", "analyze", "local", "video", "0", "error">> }

ChainEntryValues == {
    StrVal("error"),
    Dict(None, None, None),
    Dict("u1", None, None),
    Dict(None, "u2", None),
    Dict("u1", "u2", None),
    Dict(None, None, "f1"),
    Dict("u1", None, "f1") }

ChainEntries == {[k |-> k, v |-> v] : k \in ChainEntryKeys, v \in ChainEntryValues}

\* The mappings given: at most MaxEntries entries, no key twice.
ChainMappings ==
    {m \in SeqsUpTo(ChainEntries, MaxEntries) :
        \A a, b \in 1..Len(m) : m[a].k = m[b].k => a = b}

\* What the download and the analysis collaborator may answer there.
ChainToolOutcomes ==
    {[raised |-> FALSE, value |-> v] : v \in {ListContent, Dict(None, None, None), Dict(None, None, "f2")}}
    \cup {[raised |-> TRUE, value |-> StrVal("collaborator error")]}

InitChain ==
    /\ InitService
    /\ task = "task one"
    /\ redis_client = FALSE
    /\ store = [k \in SessionKeys |-> << >>]
    /\ expiry = [k \in SessionKeys |-> 0]
    /\ pc = "chain"
    /\ caller = "direct"
    /\ initial_results \in ChainMappings
    /\ InitLocals
    /\ chain_round = 1 /\ chain_before = initial_results /\ chain_mark = 0

\* The caller hands the mapping it got back to the Chain Resolver once more.
ChainAgain ==
    /\ pc = "chain_ret"
    /\ caller = "direct"
    /\ chain_round = 1
    /\ chain_round' = 2
    /\ chain_before' = initial_results
    /\ chain_mark' = Len(invocations)
    /\ play_url' = None /\ file_path' = None
    /\ pc' = "chain"
    /\ UNCHANGED <<task, redis_client, service_vars, final_gpt_response, stage_vars, final_result, plan_vars,
                   initial_results, derivative_results, i, batch_file_path, caller,
                   invocations, consulted, redis_vars, returned>>

NextChain ==
    \/ ChainScan
    \/ \E outcome \in ChainToolOutcomes : ChainDownloadReturn(outcome)
    \/ \E outcome \in ChainToolOutcomes : ChainAnalysisReturn(outcome)
    \/ ChainAgain

SpecChain == InitChain /\ [][NextChain]_vars

-----------------------------------------------------------------------------
(* The history write on its own: the last step of gpt_agent_endpoint, entered *)
(* with the answer of a run and a store that earlier runs have written to.     *)

\* What agent_log["final_gpt_processed_result"] may hold when the write is
\* reached: the Synthesizer's content (a str, possibly blank, or None), or the
\* Stage 3 error.
FinalAnswers == {"", "  ", None, "synthesized answer", " padded answer ", Stage3ErrorMsg}

\* A session as an earlier run of task t left it: absent, or one pair of entries.
EarlierSessions(t) ==
    {<< >>, <<[role |-> "user", content |-> t], [role |-> "assistant", content |-> "earlier answer"]>>}

SessionTask(k) == CHOOSE t \in (Tasks \ {""}) \cup {OtherTask} : SessionKey(t) = k

\* Stores that earlier runs may have left: a present session has its time to live
\* running, or none (0) when its expiry was never set.
EarlierStores ==
    {st \in [SessionKeys -> UNION {EarlierSessions(SessionTask(k)) : k \in SessionKeys}] :
        \A k \in SessionKeys : st[k] \in EarlierSessions(SessionTask(k))}

InitHistory ==
    /\ InitService
    /\ task \in Tasks \ {""}
    /\ redis_client \in BOOLEAN
    /\ store \in EarlierStores
    /\ expiry \in [SessionKeys -> 0..TtlTicks]
    /\ \A k \in SessionKeys : store[k] = << >> => expiry[k] = 0
    /\ pc = "redis"
    /\ caller = "none"
    /\ stage1_status = "completed_no_action_plan"
    /\ stage2_status = "pending"
    /\ stage1_warning = FALSE /\ stage2_warning = FALSE
    /\ stage1_error = Unset /\ stage2_error = Unset
    /\ final_result \in FinalAnswers
    /\ stage3_status = (IF final_result = Stage3ErrorMsg THEN "failed" ELSE "completed")
    /\ stage3_error = (IF final_result = Stage3ErrorMsg THEN Stage3ErrorMsg ELSE Unset)
    /\ final_gpt_response = (IF final_result = Stage3ErrorMsg THEN Unset ELSE final_result)
    /\ parsed_direct_answer = None
    /\ initial_calls = << >> /\ initial_results = << >>
    /\ derivative_calls = << >> /\ derivative_results = << >>
    /\ i = 0
    /\ batch_file_path = None
    /\ play_url = None /\ file_path = None
    /\ invocations = << >>
    /\ consulted = <<"planner", "derivative", "synthesizer">>
    /\ redis_log = << >>
    /\ returned = Unset
    /\ chain_round = 0 /\ chain_before = << >> /\ chain_mark = 0

NextHistory ==
    \/ RedisSkip
    \/ \E outcome \in StoreOutcomes : RedisRpush(outcome)
    \/ \E outcome \in StoreOutcomes : RedisExpire(outcome)

SpecHistory == InitHistory /\ [][NextHistory]_vars

-----------------------------------------------------------------------------
(* The History Store under concurrent requests: two gpt_agent requests at their *)
(* history write, delete_session requests, and the passing of time.             *)

StoreTasks == {"task one", OtherTask}

\* The final answers of the requests.
StoreAnswers == {"  ", "synthesized answer"}

\* The other request in flight, as suspended.
Suspended == [pc |-> pc, task |-> task, final_result |-> final_result,
              redis_log |-> redis_log, returned |-> returned]

\* The event loop resumes the other request: each await of the history write is
\* a point where it may.
Switch ==
    /\ pc \in {"redis", "redis_expire", "done"}
    /\ peer.pc \in {"redis", "redis_expire"}
    /\ peer' = Suspended
    /\ pc' = peer.pc /\ task' = peer.task
    /\ final_result' = peer.final_result /\ final_gpt_response' = peer.final_result
    /\ redis_log' = peer.redis_log /\ returned' = peer.returned
    /\ UNCHANGED <<redis_client, index, response, harness_vars, stage_vars, plan_vars,
                   initial_results, derivative_results, i, batch_file_path, chain_vars,
                   invocations, consulted, store, expiry>>

\* Entries the other request is still to push to the session of task t.
PeerPending(t) ==
    IF peer.pc = "redis" /\ peer.task = t /\ redis_client /\ NonBlankStr(peer.final_result)
    THEN 2 ELSE 0

\* A further request for task t reaches its history write with answer a, once
\* the request before it has returned.
Arrive(t, a) ==
    /\ pc = "done"
    /\ Len(store[SessionKey(t)]) + PeerPending(t) + 2 <= MaxStored
    /\ task' = t
    /\ final_result' = a /\ final_gpt_response' = a
    /\ redis_log' = << >> /\ returned' = Unset
    /\ pc' = "redis"
    /\ UNCHANGED <<redis_client, service_vars, harness_vars, stage_vars, plan_vars,
                   initial_results, derivative_results, i, batch_file_path, chain_vars,
                   invocations, consulted, store, expiry>>

\* One tick of the store's clock: a key whose time to live runs out is removed
\* whole; a key without a time to live (0) stays.
Tick ==
    /\ \E k \in SessionKeys : expiry[k] > 0
    /\ expiry' = [k \in SessionKeys |-> IF expiry[k] > 0 THEN expiry[k] - 1 ELSE 0]
    /\ store' = [k \in SessionKeys |-> IF expiry[k] = 1 THEN << >> ELSE store[k]]
    /\ UNCHANGED <<redis_log, returned, pc, final_result>>
    /\ UNCHANGED redis_frame

\* A key that names no session of the store.
UnknownKey == <<"multi_agent_history", "md5", "no such task">>

Response(op, status, key, history, sessions) ==
    [op |-> op, status |-> status, session_key |-> key, history |-> history,
     sessions |-> sessions]

\* Fault variant of DeleteSession: every session is removed.
DeleteSessionAll(k, outcome) ==
    /\ IF ~redis_client
       THEN /\ response' = Response("delete_session", 503, k, << >>, << >>)
            /\ UNCHANGED <<store, expiry>>
       ELSE IF outcome = "fail"
       THEN /\ response' = Response("delete_session", 500, k, << >>, << >>)
            /\ UNCHANGED <<store, expiry>>
       ELSE /\ response' = Response("delete_session", 200, k, << >>, << >>)
            /\ store' = [x \in SessionKeys |-> << >>]
            /\ expiry' = [x \in SessionKeys |-> 0]
    /\ UNCHANGED <<task, redis_client, peer, index, harness_vars, final_gpt_response, stage_vars,
                   final_result, plan_vars, initial_results, derivative_results, i,
                   batch_file_path, chain_vars, invocations, consulted, redis_log,
                   returned, pc>>

\* delete_session(session_key)
DeleteSession(k, outcome) ==
    /\ IF ~redis_client
       THEN /\ response' = Response("delete_session", 503, k, << >>, << >>)
            /\ UNCHANGED <<store, expiry>>
       ELSE IF outcome = "fail"
       THEN /\ response' = Response("delete_session", 500, k, << >>, << >>)
            /\ UNCHANGED <<store, expiry>>
       ELSE /\ response' = Response("delete_session", 200, k, << >>, << >>)
            /\ store' = [x \in SessionKeys |-> IF x = k THEN << >> ELSE store[x]]
            /\ expiry' = [x \in SessionKeys |-> IF x = k THEN 0 ELSE expiry[x]]
    /\ UNCHANGED <<task, redis_client, peer, index, harness_vars, final_gpt_response, stage_vars,
                   final_result, plan_vars, initial_results, derivative_results, i,
                   batch_file_path, chain_vars, invocations, consulted, redis_log,
                   returned, pc>>

\* Two requests at their history write, over a store with no session yet.
InitStore ==
    /\ task \in StoreTasks
    /\ redis_client \in BOOLEAN
    /\ store = [k \in SessionKeys |-> << >>]
    /\ expiry = [k \in SessionKeys |-> 0]
    /\ pc = "redis"
    /\ peer \in [pc : {"redis"}, task : StoreTasks, final_result : StoreAnswers,
                  redis_log : {<< >>}, returned : {Unset}]
    /\ index = NoIndex /\ response = NoResponse
    /\ caller = "none"
    /\ stage1_status = "completed_no_action_plan"
    /\ stage2_status = "pending"
    /\ stage3_status = "completed"
    /\ stage1_warning = FALSE /\ stage2_warning = FALSE
    /\ stage1_error = Unset /\ stage2_error = Unset /\ stage3_error = Unset
    /\ final_result \in StoreAnswers
    /\ final_gpt_response = final_result
    /\ parsed_direct_answer = None
    /\ initial_calls = << >> /\ initial_results = << >>
    /\ derivative_calls = << >> /\ derivative_results = << >>
    /\ i = 0
    /\ batch_file_path = None
    /\ play_url = None /\ file_path = None
    /\ invocations = << >>
    /\ consulted = <<"planner", "derivative", "synthesizer">>
    /\ redis_log = << >>
    /\ returned = Unset
    /\ chain_round = 0 /\ chain_before = << >> /\ chain_mark = 0

NextStore ==
    \/ RedisSkip
    \/ \E outcome \in StoreOutcomes : RedisRpush(outcome)
    \/ \E outcome \in StoreOutcomes : RedisExpire(outcome)
    \/ Switch
    \/ \E t \in StoreTasks, a \in StoreAnswers : Arrive(t, a)
    \/ Tick
    \/ \E k \in SessionKeys \cup {UnknownKey}, outcome \in StoreOutcomes : DeleteSession(k, outcome)

SpecStore == InitStore /\ [][NextStore]_vars

\* The same requests and clock, with no delete_session request: a session ends
\* by expiry only.
NextTtl ==
    \/ RedisSkip
    \/ \E outcome \in StoreOutcomes : RedisRpush(outcome)
    \/ \E outcome \in StoreOutcomes : RedisExpire(outcome)
    \/ Switch
    \/ \E t \in StoreTasks, a \in StoreAnswers : Arrive(t, a)
    \/ Tick

SpecTtl == InitStore /\ [][NextTtl]_vars

-----------------------------------------------------------------------------
(* The history endpoints: get_chat_history, chat_history_index, delete_session, *)
(* served while a gpt_agent request is at its history write.                    *)

\* LRANGE of the store over list q, with 0-based inclusive indices that count
\* from the end when negative.
Lrange(q, start, stop) ==
    LET from == IF start < 0 THEN (IF Len(q) + start < 0 THEN 0 ELSE Len(q) + start)
                ELSE start
        to   == IF stop < 0 THEN Len(q) + stop
                ELSE IF stop >= Len(q) THEN Len(q) - 1 ELSE stop
    IN  IF from > to \/ from >= Len(q) THEN << >> ELSE SubSeq(q, from + 1, to + 1)

\* The list at a key; a key that does not exist reads as the empty list.
StoreGet(k) == IF k \in SessionKeys THEN store[k] ELSE << >>

\* The task_hash parameter left out (or empty).
NoHash == << >>

\* f"multi_agent_history:{task_hash}"
KeyOfHash(h) == <<"multi_agent_history">> \o h

\* Fault variant of ResolveKey: the task text is used as the hash, unhashed.
ResolveKeyRaw(t, h) ==
    IF h # NoHash THEN KeyOfHash(h)
    ELSE IF t # None /\ t # "" THEN KeyOfHash(<<"raw", t>>)
    ELSE << >>

\* The key get_chat_history computes: the hash when given, else the md5 of the
\* task when given, else none (<< >>, the 400 response).
ResolveKey(t, h) ==
    IF h # NoHash THEN KeyOfHash(h)
    ELSE IF t # None /\ t # "" THEN KeyOfHash(Md5(t))
    ELSE << >>

\* [item.get("content", "") for item in history if item.get("role") == "assistant"]
RECURSIVE AssistantContents(_)
AssistantContents(q) ==
    IF q = << >> THEN << >>
    ELSE IF Head(q).role = "assistant"
         THEN <<Head(q).content>> \o AssistantContents(Tail(q))
         ELSE AssistantContents(Tail(q))

\* The query parameters of get_chat_history.
QueryTasks == {None, ""} \cup StoreTasks

QueryHashes == {NoHash, Md5("no such task")} \cup {Md5(t) : t \in StoreTasks}

\* The (task, task_hash) pairs asked: one of the two, neither, or a task with the
\* hash of another task.
Queries ==
    {<<t, NoHash>> : t \in QueryTasks} \cup {<<None, h>> : h \in QueryHashes}
    \cup {<<"task one", Md5(OtherTask)>>}

\* The limits of the read requests; limit is any integer, 0 included.
Limits == 0..MaxLimit

handler_frame == <<task, redis_client, peer, harness_vars, final_gpt_response, stage_vars,
                   final_result, plan_vars, initial_results, derivative_results, i,
                   batch_file_path, chain_vars, invocations, consulted, redis_log,
                   returned, pc>>

\* Fault variant of GetChatHistory: a handler that finds no client connects to the
\* store again and serves the request.
GetChatHistoryReconnects(t, h, limit, outcome) ==
    /\ redis_client' = TRUE
    /\ response' =
           IF ResolveKey(t, h) = << >>
           THEN Response("chat_history", 400, << >>, << >>, << >>)
           ELSE IF outcome = "fail"
           THEN Response("chat_history", 500, ResolveKey(t, h), << >>, << >>)
           ELSE Response("chat_history", 200, ResolveKey(t, h),
                         AssistantContents(Lrange(StoreGet(ResolveKey(t, h)), 0 - limit, 0 - 1)),
                         << >>)
    /\ UNCHANGED <<store, expiry, index>>
    /\ UNCHANGED <<task, peer, harness_vars, final_gpt_response, stage_vars,
                   final_result, plan_vars, initial_results, derivative_results, i,
                   batch_file_path, chain_vars, invocations, consulted, redis_log,
                   returned, pc>>

\* get_chat_history(task, task_hash, limit)
GetChatHistory(t, h, limit, outcome) ==
    /\ response' =
           IF ~redis_client THEN Response("chat_history", 503, << >>, << >>, << >>)
           ELSE IF ResolveKey(t, h) = << >>
           THEN Response("chat_history", 400, << >>, << >>, << >>)
           ELSE IF outcome = "fail"
           THEN Response("chat_history", 500, ResolveKey(t, h), << >>, << >>)
           ELSE Response("chat_history", 200, ResolveKey(t, h),
                         AssistantContents(Lrange(StoreGet(ResolveKey(t, h)), 0 - limit, 0 - 1)),
                         << >>)
    /\ UNCHANGED <<store, expiry, index>>
    /\ UNCHANGED handler_frame

\* The orders in which KEYS may list the set S of keys.
Orders(S) ==
    {q \in SeqsUpTo(S, Cardinality(S)) :
        Len(q) = Cardinality(S) /\ \A m, n \in 1..Len(q) : q[m] = q[n] => m = n}

\* The keys that exist: a list of the store is never empty.
PresentKeys == {k \in SessionKeys : store[k] # << >>}

\* chat_history_index up to its first lrange: the client check and
\* redis_client.keys("multi_agent_history:*").
IndexKeys(order, outcome) ==
    /\ index.at = "idle"
    /\ order \in Orders(PresentKeys)
    /\ IF ~redis_client
       THEN /\ response' = Response("chat_history_index", 503, << >>, << >>, << >>)
            /\ UNCHANGED index
       ELSE IF outcome = "fail"
       THEN /\ response' = Response("chat_history_index", 500, << >>, << >>, << >>)
            /\ UNCHANGED index
       ELSE IF order = << >>
       THEN /\ response' = Response("chat_history_index", 200, << >>, << >>, << >>)
            /\ UNCHANGED index
       ELSE /\ index' = [at |-> "lrange", keys |-> order, sessions |-> << >>,
                         seen |-> store, steady |-> TRUE]
            /\ UNCHANGED response
    /\ UNCHANGED <<store, expiry>>
    /\ UNCHANGED handler_frame

\* Fault variant of IndexLrange: the last entry of the list is read, not the first.
IndexLrangeLastEntry(outcome) ==
    /\ index.at = "lrange"
    /\ IF outcome = "fail"
       THEN /\ response' = Response("chat_history_index", 500, << >>, << >>, << >>)
            /\ index' = NoIndex
       ELSE LET key == Head(index.keys)
                items == Lrange(store[key], 0 - 1, 0 - 1)
                sessions == IF items # << >> /\ items[1].role = "user"
                            THEN Append(index.sessions,
                                        [session_key |-> key, task |-> items[1].content])
                            ELSE index.sessions
            IN  IF Tail(index.keys) = << >>
                THEN /\ response' = Response("chat_history_index", 200, << >>, << >>, sessions)
                     /\ index' = NoIndex
                ELSE /\ index' = [index EXCEPT !.keys = Tail(index.keys),
                                               !.sessions = sessions,
                                               !.steady = index.steady /\ store = index.seen]
                     /\ UNCHANGED response
    /\ UNCHANGED <<store, expiry>>
    /\ UNCHANGED handler_frame

\* One round of the loop of chat_history_index: lrange(key, 0, 0) and the
\* record of the session; after the last key, the response.
IndexLrange(outcome) ==
    /\ index.at = "lrange"
    /\ IF outcome = "fail"
       THEN /\ response' = Response("chat_history_index", 500, << >>, << >>, << >>)
            /\ index' = NoIndex
       ELSE LET key == Head(index.keys)
                items == Lrange(store[key], 0, 0)
                sessions == IF items # << >> /\ items[1].role = "user"
                            THEN Append(index.sessions,
                                        [session_key |-> key, task |-> items[1].content])
                            ELSE index.sessions
            IN  IF Tail(index.keys) = << >>
                THEN /\ response' = Response("chat_history_index", 200, << >>, << >>, sessions)
                     /\ index' = NoIndex
                ELSE /\ index' = [index EXCEPT !.keys = Tail(index.keys),
                                               !.sessions = sessions,
                                               !.steady = index.steady /\ store = index.seen]
                     /\ UNCHANGED response
    /\ UNCHANGED <<store, expiry>>
    /\ UNCHANGED handler_frame

\* A session as earlier requests for task t left it.
StoredSessions(t) ==
    {<< >>,
     <<[role |-> "user", content |-> t], [role |-> "assistant", content |-> "earlier answer"]>>,
     <<[role |-> "user", content |-> t], [role |-> "assistant", content |-> "earlier answer"],
       [role |-> "user", content |-> t], [role |-> "assistant", content |-> "later answer"]>>}

\* The History Store with sessions of earlier requests, one request at its
\* history write.
InitQuery ==
    /\ task \in StoreTasks
    /\ redis_client \in BOOLEAN
    /\ store \in [SessionKeys -> UNION {StoredSessions(t) : t \in StoreTasks}]
    /\ \A k \in SessionKeys : store[k] \in StoredSessions(SessionTask(k))
    /\ expiry = [k \in SessionKeys |-> IF store[k] = << >> THEN 0 ELSE 1]
    /\ pc = "redis"
    /\ InitService
    /\ caller = "none"
    /\ stage1_status = "completed_no_action_plan"
    /\ stage2_status = "pending"
    /\ stage3_status = "completed"
    /\ stage1_warning = FALSE /\ stage2_warning = FALSE
    /\ stage1_error = Unset /\ stage2_error = Unset /\ stage3_error = Unset
    /\ final_result = "synthesized answer"
    /\ final_gpt_response = final_result
    /\ parsed_direct_answer = None
    /\ initial_calls = << >> /\ initial_results = << >>
    /\ derivative_calls = << >> /\ derivative_results = << >>
    /\ i = 0
    /\ batch_file_path = None
    /\ play_url = None /\ file_path = None
    /\ invocations = << >>
    /\ consulted = <<"planner", "derivative", "synthesizer">>
    /\ redis_log = << >>
    /\ returned = Unset
    /\ chain_round = 0 /\ chain_before = << >> /\ chain_mark = 0

NextQuery ==
    \/ RedisSkip
    \/ \E outcome \in StoreOutcomes : RedisRpush(outcome)
    \/ \E outcome \in StoreOutcomes : RedisExpire(outcome)
    \/ \E q \in Queries, limit \in Limits, outcome \in StoreOutcomes :
           GetChatHistory(q[1], q[2], limit, outcome)
    \/ \E order \in Orders(SessionKeys) \cup SeqsUpTo(SessionKeys, 1), outcome \in StoreOutcomes :
           IndexKeys(order, outcome)
    \/ \E outcome \in StoreOutcomes : IndexLrange(outcome)
    \/ \E k \in SessionKeys \cup {UnknownKey}, outcome \in StoreOutcomes : DeleteSession(k, outcome)

SpecQuery == InitQuery /\ [][NextQuery]_vars

-----------------------------------------------------------------------------
(* Properties *)

\* Some value of the mapping carries a playable media locator (play or play_url).
HasPlayable(m) ==
    \E n \in 1..Len(m) : m[n].v.kind = "dict" /\ (m[n].v.play # None \/ m[n].v.play_url # None)

\* Some value of the mapping carries a local file locator (file_path).
HasFileLocator(m) ==
    \E n \in 1..Len(m) : m[n].v.kind = "dict" /\ m[n].v.file_path # None

\* The mapping holds an analysis result key, planned or auto-injected.
AnalysisRecorded(m) ==
    \E n \in 1..Len(m) :
        \/ StartsWith(m[n].k, <<"contentunderstanding", "analyze", "local", "video">>)
        \/ StartsWith(m[n].k, <<"auto", "video", "analysis", "result">>)

\* The collaborator invocations of the Chain Resolver invocation under way.
ChainTail == SubSeq(invocations, chain_mark + 1, Len(invocations))

Downloads(q) == Cardinality({n \in 1..Len(q) : q[n].tool_name = <<"download", "video", "by", "url">>})

Analyses(q) == Cardinality({n \in 1..Len(q) : q[n].tool_name = <<"analyze", "local", "video">>})

ChainOver == pc \in {"chain_ret", "chain_raised"}

Consulted(oracle) == \E n \in 1..Len(consulted) : consulted[n] = oracle

DirectAnswerGiven == parsed_direct_answer \in {"the answer", " padded answer "}

\* C1: when the Planner's reply carries a non-blank direct answer and no calls,
\* Stage 1 ends completed_direct_answer, no collaborator is invoked, no other oracle
\* is consulted, and the run returns that direct answer verbatim.
C1_DirectAnswer ==
    (pc \notin {"request", "stage1"} /\ DirectAnswerGiven /\ initial_calls = << >>) =>
        /\ stage1_status = "completed_direct_answer"
        /\ invocations = << >>
        /\ consulted = <<"planner">>
        /\ (pc = "done" => returned = parsed_direct_answer)

C1_Witness ==
    /\ pc = "done"
    /\ parsed_direct_answer = " padded answer "
    /\ returned = " padded answer "

\* C2: when the Planner's consultation fails, Stage 1 is marked failed and the run
\* returns the non-empty Stage 1 failure message.
C2_PlannerFailureAnswer ==
    (pc = "done" /\ stage1_status = "failed" /\ initial_calls = << >>) =>
        /\ returned = stage1_error
        /\ returned # ""

\* C3: once Stage 1 is marked failed, the run consults no oracle and invokes no
\* collaborator any more.
C3_NothingAfterStage1Failed ==
    [][stage1_status = "failed" => (consulted' = consulted /\ invocations' = invocations)]_vars

C3_Witness ==
    /\ pc = "done"
    /\ stage1_status = "failed"
    /\ invocations # << >>

\* C4: when the Derivative Planner stage fails, Stage 2 is marked failed, its error
\* text is the run's final answer, and the Synthesizer is not consulted.
C4_Stage2FailureAnswer ==
    (pc = "done" /\ stage2_status = "failed") =>
        /\ returned = stage2_error
        /\ ~Consulted("synthesizer")

\* C5: when the Synthesizer's consultation fails, Stage 3 is marked failed and the
\* run returns the non-empty Stage 3 error; whenever the Synthesizer was consulted
\* the final answer is the oracle's text or that error.
C5_SynthesizerAnswer ==
    Consulted("synthesizer") =>
        /\ stage3_status \in {"completed", "failed"}
        /\ stage3_status = "failed" =>
               final_result = stage3_error /\ stage3_error \notin {Unset, ""}
        /\ stage3_status = "completed" => final_result = final_gpt_response
        /\ pc = "done" => returned = final_result

C5_Witness ==
    /\ pc = "done"
    /\ stage3_status = "failed"
    /\ returned = "Stage 3 failed"

\* C6: a run with a non-empty task never lets an exception escape, whatever
\* fails: it always has a next step until it has returned a value.
C6_NoEscape ==
    task # "" =>
        /\ pc # "raised"
        /\ pc = "done" => returned # Unset
        /\ pc # "done" => ENABLED Next

C6_Witness ==
    /\ pc = "done"
    /\ stage2_status = "failed"
    /\ \E k \in Keys(initial_results) : k[Len(k)] = "error"
    /\ redis_log = <<"Error writing to Redis">>
    /\ returned # Unset

\* C7: given a mapping with a playable media locator and no download entry, one
\* invocation of the Chain Resolver invokes the download collaborator exactly once
\* and records the outcome under auto_video_download_result.
C7_DownloadOnceAndRecorded ==
    (chain_round = 1 /\ ChainOver /\ HasPlayable(chain_before)
        /\ <<"auto", "video", "download", "result">> \notin Keys(chain_before)) =>
        /\ Downloads(ChainTail) = 1
        /\ <<"auto", "video", "download", "result">> \in Keys(initial_results)

C9_AnalysisOnceForFileLocator ==
    (chain_round = 1 /\ pc = "chain_ret" /\ HasFileLocator(chain_before)
        /\ ~AnalysisRecorded(chain_before)) =>
        /\ Analyses(ChainTail) = 1
        /\ <<"auto", "video", "analysis", "result">> \in Keys(initial_results)

\* C10: the Chain Resolver never invokes the analysis collaborator on a mapping
\* that holds a key starting with contentunderstanding_analyze_local_video or
\* auto_video_analysis_result.
C10_NoAnalysisWhenRecorded ==
    pc = "chain_await_analysis" => ~AnalysisRecorded(ChainResults)

C10_Witness ==
    /\ pc = "chain_ret"
    /\ caller = "stage1"
    /\ HasFileLocator(initial_results)
    /\ \E k \in Keys(initial_results) : k[Len(k)] = "error" /\ AnalysisRecorded(<<[k |-> k, v |-> None]>>)
    /\ \A n \in 1..Len(invocations) : invocations[n].by # "chain"

\* The locator of the value latest in insertion order among those that carry one,
\* play_url before play within that value.
LastPlayable(m) ==
    LET carriers == {n \in 1..Len(m) :
                        m[n].v.kind = "dict" /\ (m[n].v.play # None \/ m[n].v.play_url # None)}
        last == CHOOSE n \in carriers : \A o \in carriers : o <= n
    IN IF m[last].v.play_url # None THEN m[last].v.play_url ELSE m[last].v.play

\* C11: when several values carry a playable media locator, the download
\* collaborator is handed the locator of the value latest in insertion order, and
\* within one value play_url goes before play.
C11_LastLocatorWins ==
    (pc = "chain_await_download" /\ chain_round = 1) =>
        /\ HasPlayable(chain_before)
        /\ invocations[Len(invocations)].tool_name = DownloadByUrl
        /\ invocations[Len(invocations)].arg = LastPlayable(chain_before)

C11_Witness ==
    /\ pc = "chain_await_download"
    /\ chain_round = 1
    /\ Len(chain_before) = 2
    /\ chain_before[1].v = Dict("u1", "u2", None)
    /\ chain_before[2].v = Dict("u1", None, None)
    /\ invocations[Len(invocations)].arg = "u1"

\* The collaborator invocations the Chain Resolver made in one stage, in order.
ChainCalls(stage) == SelectSeq(invocations, LAMBDA v : v.by = "chain" /\ v.stage = stage)

\* The entries of a batch's mapping that the batch itself wrote.
PlannedEntries(m) ==
    SelectSeq(m, LAMBDA e : e.k # <<"auto", "video", "download", "result">>
                            /\ e.k # <<"auto", "video", "analysis", "result">>)

ValueAt(m, k) == m[CHOOSE n \in 1..Len(m) : m[n].k = k].v

\* The download of the Chain Resolver returned a mapping with a file locator.
DownloadGaveFile(m) ==
    /\ <<"auto", "video", "download", "result">> \in Keys(m)
    /\ ValueAt(m, <<"auto", "video", "download", "result">>).kind = "dict"
    /\ ValueAt(m, <<"auto", "video", "download", "result">>).file_path # None

Stage1CarriesNothing == ~HasPlayable(initial_results) /\ ~HasFileLocator(initial_results)

Stage2ChainOver == caller = "stage2" /\ ChainOver

\* The Chain Resolver's calls of Stage 2 are one download and then one analysis of
\* the file the download returned.
DownloadThenAnalysis(q) ==
    /\ Len(q) = 2
    /\ q[1].tool_name = <<"download", "video", "by", "url">>
    /\ q[2].tool_name = <<"analyze", "local", "video">>
    /\ q[2].arg = ValueAt(derivative_results, <<"auto", "video", "download", "result">>).file_path

Stage1LoopOver == pc = "s1_loop" /\ i = Len(initial_calls)

Stage2LoopOver == pc = "s2_loop" /\ i = Len(derivative_calls)

\* C13: when the loop of a batch of N planned calls finishes, before the Chain
\* Resolver adds its entries, the batch's result mapping holds exactly N entries.
C13_OneEntryPerCall ==
    /\ Stage1LoopOver => Len(initial_results) = Len(initial_calls)
    /\ Stage2LoopOver => Len(derivative_results) = Len(derivative_calls)

\* k is an error key of the planned call c at index n: <platform>_<tool>_..._error
\* with the index in it.
IsErrorKeyOf(k, c, n) ==
    /\ StartsWith(k, Lower(c.platform) \o c.tool_name)
    /\ k[Len(k)] = "error"
    /\ \E j \in 1..Len(k) : k[j] = ToString(n)

\* A collaborator invoked for the planned call at index i (the call itself, or the
\* analysis that follows a tiktok download_video) raises.
Stage1CallRaises ==
    \E outcome \in ToolOutcomes :
        outcome.raised /\ (Stage1CallReturn(outcome) \/ Stage1AnalysisReturn(outcome))

Stage2CallRaises ==
    \E outcome \in ToolOutcomes :
        outcome.raised /\ (Stage2CallReturn(outcome) \/ Stage2AnalysisReturn(outcome))

\* C14: in both batches, when the collaborator invoked for call k raises, an error
\* entry for call k is recorded, the loop goes on to the call after k, and the
\* stage is not marked failed.
C14_CallFailureIsolated ==
    [][/\ Stage1CallRaises =>
              /\ \E k \in Keys(initial_results') \ Keys(initial_results) :
                     IsErrorKeyOf(k, initial_calls[i + 1], i)
              /\ pc' = "s1_loop" /\ i' = i + 1
              /\ stage1_status' # "failed"
       /\ Stage2CallRaises =>
              /\ \E k \in Keys(derivative_results') \ Keys(derivative_results) :
                     IsErrorKeyOf(k, derivative_calls[i + 1], i)
              /\ pc' = "s2_loop" /\ i' = i + 1
              /\ stage2_status' # "failed"]_vars

\* The download or the analysis invoked by the Chain Resolver raises.
ChainCallRaises ==
    \E outcome \in ToolOutcomes :
        outcome.raised /\ (ChainDownloadReturn(outcome) \/ ChainAnalysisReturn(outcome))

\* C15: when a collaborator invoked by the Chain Resolver raises, the failure is
\* recorded as a result entry and stays inside the Chain Resolver, the enclosing
\* stage is not marked failed, and the stage after it still runs.
C15_ChainFailureIsolated ==
    [][/\ ChainCallRaises =>
              /\ Len(ChainResults') = Len(ChainResults) + 1
              /\ pc' # "chain_raised"
       /\ Stage1AfterChain => (stage1_status' # "failed" /\ ~SkipsLaterStages(stage1_status'))
       /\ Stage2AfterChain => stage2_status' # "failed"]_vars

\* A planned call that is a JSON object with an empty or missing platform, or a
\* missing tool name.
LacksPlatformOrTool(c) ==
    c.kind = "dict" /\ (c.platform \in {<< >>, <<"">>} \/ c.tool_name \in {<< >>, <<"">>})

\* k is a skipped entry's key that carries the call index n.
IsSkippedKeyOf(k, n) ==
    /\ \E j \in 1..Len(k) : k[j] = "skipped"
    /\ \E j \in 1..Len(k) : k[j] = ToString(n)

\* C16: in both batches a planned call with an empty or missing platform or a
\* missing tool name is recorded as a skipped entry under a call-indexed key, is
\* not dispatched, and the loop goes on to the next call without the stage failing.
C16_InvalidCallSkipped ==
    [][/\ (Stage1Call /\ LacksPlatformOrTool(initial_calls[i + 1])) =>
              /\ \E k \in Keys(initial_results') \ Keys(initial_results) : IsSkippedKeyOf(k, i)
              /\ invocations' = invocations
              /\ pc' = "s1_loop" /\ i' = i + 1
              /\ stage1_status' # "failed"
       /\ (Stage2Call /\ LacksPlatformOrTool(derivative_calls[i + 1])) =>
              /\ \E k \in Keys(derivative_results') \ Keys(derivative_results) : IsSkippedKeyOf(k, i)
              /\ invocations' = invocations
              /\ pc' = "s2_loop" /\ i' = i + 1
              /\ stage2_status' # "failed"]_vars

\* A planned call whose platform is non-empty and not in the Tool Registry.
UnregisteredPlatform(c) ==
    /\ c.kind = "dict"
    /\ c.platform \notin {<< >>, <<"">>}
    /\ Lower(c.platform) \notin MCP_SERVER_SCRIPTS

IsErrorKey(k) == k[Len(k)] = "error"

\* C17: a planned call whose platform is non-empty but not in the Tool Registry
\* is recorded as a skipped entry, not as an error entry, and the loop goes on to
\* the next call.
C17_UnregisteredPlatformSkipped ==
    [][/\ (Stage1Call /\ UnregisteredPlatform(initial_calls[i + 1])) =>
              /\ \A k \in Keys(initial_results') \ Keys(initial_results) :
                     IsSkippedKeyOf(k, i) /\ ~IsErrorKey(k)
              /\ Keys(initial_results') # Keys(initial_results)
              /\ pc' = "s1_loop" /\ i' = i + 1
       /\ (Stage2Call /\ UnregisteredPlatform(derivative_calls[i + 1])) =>
              /\ \A k \in Keys(derivative_results') \ Keys(derivative_results) :
                     IsSkippedKeyOf(k, i) /\ ~IsErrorKey(k)
              /\ Keys(derivative_results') # Keys(derivative_results)
              /\ pc' = "s2_loop" /\ i' = i + 1]_vars

\* C18: no collaborator process is ever invoked for an invalid call: every
\* invocation has a non-empty platform of the Tool Registry and a tool name.
C18_NoInvalidDispatch ==
    \A n \in 1..Len(invocations) :
        /\ invocations[n].platform \notin {<< >>, <<"">>}
        /\ invocations[n].platform \in MCP_SERVER_SCRIPTS
        /\ invocations[n].tool_name \notin {<< >>, <<"">>}

\* The call-list field of a plan is present and is no sequence.
CallsNotASequence(reply) == reply.kind = "plan" /\ reply.calls.t \in {"other", "other_falsy"}

\* C19: for the Planner and the Derivative Planner alike, a reply whose call-list
\* field is present but no sequence gives an empty call list, a warning on the
\* stage, no collaborator invocation, and a stage that is not marked failed.
C19_NonSequenceCallsTolerated ==
    [][/\ \A reply \in PlannerReplies :
              (CallsNotASequence(reply) /\ Stage1Plan(reply)) =>
                  /\ initial_calls' = << >>
                  /\ stage1_warning'
                  /\ invocations' = invocations /\ pc' # "s1_loop"
                  /\ stage1_status' # "failed"
       /\ \A reply \in DerivReplies(Len(initial_calls)) :
              (CallsNotASequence(reply) /\ Stage2Plan(reply)) =>
                  /\ derivative_calls' = << >>
                  /\ stage2_warning'
                  /\ invocations' = invocations /\ pc' # "s2_loop"
                  /\ stage2_status' # "failed"]_vars

\* The answer is a non-blank string.
NonBlankAnswer == final_result \notin {"<unset>", "None", "<non-str>", "", "  "}

UserEntry(t) == [role |-> "user", content |-> t]

AssistantEntry(a) == [role |-> "assistant", content |-> a]

\* C20: with the store available (the client is set and its commands succeed), a
\* run whose final answer is non-blank attempts the history write; the push
\* appends to the session of the task exactly a user entry holding the task and an
\* assistant entry holding the answer, and changes nothing else; the expiry set
\* that follows gives that session the fixed window, changes nothing else, and
\* the run returns the answer the assistant entry holds.
C20_HistoryAppended ==
    [][/\ (pc = "redis" /\ redis_client /\ NonBlankAnswer) =>
              (pc' = "redis_expire" \/ \E n \in 1..Len(redis_log') : redis_log'[n] = "Error writing to Redis")
       /\ pc' = "redis_expire" =>
              /\ redis_client /\ NonBlankAnswer
              /\ store'[SessionKey(task)] =
                     store[SessionKey(task)] \o <<UserEntry(task), AssistantEntry(final_result)>>
              /\ \A k \in SessionKeys \ {SessionKey(task)} : store'[k] = store[k]
              /\ expiry' = expiry
       /\ pc = "redis_expire" =>
              /\ store' = store
              /\ \/ /\ redis_log' = <<"Conversation history written to Redis">>
                    /\ expiry'[SessionKey(task)] = TtlTicks
                    /\ \A k \in SessionKeys \ {SessionKey(task)} : expiry'[k] = expiry[k]
                 \/ /\ redis_log' = <<"Error writing to Redis">>
                    /\ expiry' = expiry
              /\ pc' = "done"
              /\ returned' = store[SessionKey(task)][Len(store[SessionKey(task)])].content]_vars

C20_Witness ==
    /\ pc = "done"
    /\ returned = " padded answer "
    /\ store[SessionKey(task)] =
           <<UserEntry(task), AssistantEntry("earlier answer"),
             UserEntry(task), AssistantEntry(" padded answer ")>>
    /\ expiry[SessionKey(task)] = TtlTicks
    /\ store[SessionKey("task two")] # << >>
    /\ expiry[SessionKey("task two")] = 1
    /\ redis_log = <<"Conversation history written to Redis">>


\* C21: a run that reaches the history write without a store client, or with an
\* answer that is not a non-blank string, leaves the entries and the expiry of
\* every session as they were, ends with exactly one note in its redis log, the
\* note naming the reason, and returns its answer.
C21_NoWriteIsNoted ==
    [][(pc = "redis" /\ ~(redis_client /\ NonBlankAnswer)) =>
           /\ store' = store /\ expiry' = expiry
           /\ redis_log' = <<IF ~redis_client THEN "Redis client not available"
                                              ELSE "No final answer processed">>
           /\ pc' = "done"
           /\ returned' = final_result]_vars

C21_Witness ==
    /\ pc = "done" /\ redis_client /\ final_result = "  "
    /\ redis_log = <<"No final answer processed">>
    /\ returned = "  "
    /\ store[SessionKey(task)] # << >> /\ expiry[SessionKey(task)] = 1


\* C22: a history write whose push fails (the session is left as it was), or
\* whose expiry set fails after the push (the session does not get the window),
\* ends the run with exactly the note "Error writing to Redis" in its redis log,
\* and every way the write step ends, failed or not, returns the final answer.
C22_WriteFailureIsNoted ==
    [][/\ (pc = "redis" /\ redis_client /\ NonBlankAnswer /\ store' = store) =>
              /\ redis_log' = <<"Error writing to Redis">>
              /\ pc' = "done" /\ returned' = final_result
       /\ (pc = "redis_expire" /\ expiry'[SessionKey(task)] # TtlTicks) =>
              /\ redis_log' = <<"Error writing to Redis">>
              /\ pc' = "done" /\ returned' = final_result
       /\ pc = "redis_expire" => (pc' = "done" /\ returned' = final_result)
       /\ pc = "redis" => (pc' = "done" => returned' = final_result)]_vars

\* The expiry set failed after a push that succeeded.
C22_Witness ==
    /\ pc = "done" /\ returned = " padded answer "
    /\ redis_log = <<"Error writing to Redis">>
    /\ store[SessionKey(task)] =
           <<UserEntry(task), AssistantEntry("earlier answer"),
             UserEntry(task), AssistantEntry(" padded answer ")>>
    /\ expiry[SessionKey(task)] = 1


\* A list of (user, assistant) pairs whose user entries hold a task of session k.
PairsOf(q, k) ==
    /\ Len(q) % 2 = 0
    /\ \A n \in 1..Len(q) :
           IF n % 2 = 1 THEN q[n].role = "user" /\ SessionKey(q[n].content) = k
                        ELSE q[n].role = "assistant"

\* C23: whatever the interleaving of two requests at their history write (of the
\* same task or not), of delete_session requests and of expiries, every session
\* is at all times a list of even length whose roles alternate from user and
\* whose user entries hold a task that hashes to the session key; and a step
\* changes a session only by removing it whole or by appending the user entry
\* and the assistant entry of the request taking the step, both at once.
C23_SessionsArePairs ==
    /\ [](\A k \in SessionKeys : PairsOf(store[k], k))
    /\ [][\A k \in SessionKeys :
             \/ store'[k] = store[k]
             \/ store'[k] = << >>
             \/ /\ k = SessionKey(task)
                /\ store'[k] = store[k] \o <<UserEntry(task), AssistantEntry(final_result)>>]_vars

\* Two requests of one task have both pushed, and neither has set the expiry.
C23_Witness ==
    /\ pc = "redis_expire" /\ peer.pc = "redis_expire" /\ peer.task = task
    /\ Len(store[SessionKey(task)]) = 4
    /\ store[SessionKey(OtherTask)] = << >>


\* The last n elements of q.
LastN(q, n) == SubSeq(q, Len(q) - n + 1, Len(q))

Min(a, b) == IF a < b THEN a ELSE b

\* C24: a get_chat_history request with limit L >= 1 that is answered returns the
\* contents of the min(L, A) most recent assistant entries of the session it
\* resolved, A being the number of assistant entries of that session, in
\* insertion order.
C24_ReadReturnsLastAssistants ==
    [][\A q \in Queries, limit \in 1..MaxLimit :
           (GetChatHistory(q[1], q[2], limit, "ok") /\ response'.status = 200) =>
               LET all == AssistantContents(StoreGet(response'.session_key))
               IN  response'.history = LastN(all, Min(limit, Len(all)))]_vars


\* The content of the first user entry of the list q.
FirstUserContent(q) ==
    q[CHOOSE n \in 1..Len(q) :
          q[n].role = "user" /\ \A m \in 1..(n - 1) : q[m].role # "user"].content

\* The records are one per session present in the store, each with the content
\* of the first user entry of its session.
ExactIndex(sessions) ==
    /\ {sessions[n].session_key : n \in 1..Len(sessions)} = PresentKeys
    /\ Len(sessions) = Cardinality(PresentKeys)
    /\ \A n \in 1..Len(sessions) :
           sessions[n].task = FirstUserContent(store[sessions[n].session_key])

\* The step in which chat_history_index answers after its last lrange.
IndexAnswers ==
    /\ index.at = "lrange" /\ index' = NoIndex
    /\ response'.op = "chat_history_index" /\ response'.status = 200

\* C25 as stated: whenever chat_history_index answers, its records are exactly
\* one per session present in the store at that moment, none for an absent
\* session, each with the content of the first user entry of its session.
C25_IndexListsSessions ==
    [][/\ IndexAnswers => ExactIndex(response'.sessions)
       /\ (redis_client /\ IndexKeys(<< >>, "ok")) => ExactIndex(response'.sessions)]_vars

\* C25 amended: the same, for a chat_history_index request during which the
\* store is not changed, from its keys command to its last lrange.
C25_IndexListsSessionsWhenSteady ==
    [][/\ (IndexAnswers /\ index.steady /\ store = index.seen) =>
              ExactIndex(response'.sessions)
       /\ (redis_client /\ IndexKeys(<< >>, "ok")) => ExactIndex(response'.sessions)]_vars

\* Both sessions are listed, the second as the request left it after its push.
C25_Witness ==
    /\ response.op = "chat_history_index" /\ response.status = 200
    /\ Len(response.sessions) = 2
    /\ ExactIndex(response.sessions)
    /\ pc = "done" /\ Len(store[SessionKey(task)]) = 6


\* What get_chat_history answers for key k and the given limit.
HistoryOf(k, limit) == AssistantContents(Lrange(StoreGet(k), 0 - limit, 0 - 1))

\* C26: a delete_session of key k that succeeds reports success and leaves k
\* absent: a read of k, whatever the limit, gives an empty history and the keys
\* an enumeration lists do not include k; the entries and the expiry of every
\* other session are as before; when k was absent already, nothing changes.
C26_DeleteRemovesOnlyThatSession ==
    [][\A k \in SessionKeys \cup {UnknownKey} :
           (redis_client /\ DeleteSession(k, "ok")) =>
               /\ response'.op = "delete_session" /\ response'.status = 200
               /\ \A limit \in Limits : HistoryOf(k, limit)' = << >>
               /\ k \notin PresentKeys'
               /\ \A x \in SessionKeys \ {k} : store'[x] = store[x] /\ expiry'[x] = expiry[x]
               /\ StoreGet(k) = << >> => (store' = store /\ expiry' = expiry)]_vars

\* The session the request appended to has been deleted; the other one stays.
C26_Witness ==
    /\ response.op = "delete_session" /\ response.status = 200
    /\ response.session_key = SessionKey(task)
    /\ pc = "done" /\ redis_log = <<"Conversation history written to Redis">>
    /\ store[SessionKey(task)] = << >>
    /\ \E k \in SessionKeys : Len(store[k]) = 4 /\ expiry[k] = 1


\* The step that ends a history write reported as written.
AppendSucceeds == pc = "redis_expire" /\ redis_log' = <<"Conversation history written to Redis">>

\* C27: with time in ticks and sessions ending by expiry only, when a history
\* write ends as written the answer just appended is readable (it is the most
\* recent assistant entry of the session) and the session, older entries
\* included, has the full window ahead; a tick takes one unit off the time to
\* live of every session and removes whole a session whose time has run out.
C27_AppendRestartsWindow ==
    [][/\ AppendSucceeds =>
              /\ HistoryOf(SessionKey(task), 1)' = <<final_result>>
              /\ store'[SessionKey(task)] = store[SessionKey(task)]
              /\ expiry'[SessionKey(task)] = TtlTicks
       /\ (\E k \in SessionKeys : expiry'[k] < expiry[k]) =>
              \A k \in SessionKeys :
                  /\ expiry[k] > 0 => expiry'[k] = expiry[k] - 1
                  /\ store'[k] = IF expiry[k] = 1 THEN << >> ELSE store[k]]_vars


\* The most recent answer of the session at key k.
LatestAnswer(k) == StoreGet(k)[Len(StoreGet(k))].content

\* C28: the key a request for task t pushes to is the key get_chat_history
\* resolves from task t alone and from the md5 of t alone; a push changes the
\* session of its own task and no other, and different tasks have different
\* keys; so a read by task and a read by hash (limit >= 1) of a task whose
\* session is present both answer for that key and end with the answer most
\* recently appended for the task.
C28_OneKeyPerTask ==
    [][/\ \A t \in StoreTasks :
              /\ ResolveKey(t, NoHash) = SessionKey(t)
              /\ ResolveKey(None, Md5(t)) = SessionKey(t)
              /\ \A u \in StoreTasks \ {t} : SessionKey(u) # SessionKey(t)
       /\ (pc = "redis" /\ pc' = "redis_expire") =>
              /\ LatestAnswer(ResolveKey(task, NoHash))' = final_result
              /\ LatestAnswer(ResolveKey(None, Md5(task)))' = final_result
              /\ \A u \in StoreTasks \ {task} : store'[SessionKey(u)] = store[SessionKey(u)]
       /\ \A t \in StoreTasks, limit \in 1..MaxLimit :
              /\ (redis_client /\ (GetChatHistory(t, NoHash, limit, "ok")
                                      \/ GetChatHistory(None, Md5(t), limit, "ok"))) =>
                  /\ response'.status = 200
                  /\ response'.session_key = SessionKey(t)
                  /\ store[SessionKey(t)] # << >> =>
                         /\ response'.history # << >>
                         /\ response'.history[Len(response'.history)] =
                                LatestAnswer(SessionKey(t))]_vars

\* The answer the request appended has been read back.
C28_Witness ==
    /\ pc = "done" /\ redis_log = <<"Conversation history written to Redis">>
    /\ response.op = "chat_history" /\ response.status = 200
    /\ response.session_key = SessionKey(task)
    /\ response.history = <<final_result>> /\ Len(store[SessionKey(task)]) = 6
    /\ store[SessionKey(IF task = OtherTask THEN "task one" ELSE OtherTask)] # << >>


\* A collaborator invocation is in flight: the run is at the await of a call.
Awaiting(p) ==
    p \in {"s1_await", "s1_await_analysis", "s2_await", "s2_await_analysis",
           "chain_await_download", "chain_await_analysis"}

\* The planned call list of a batch.
BatchCalls(stage) == IF stage = "stage1" THEN initial_calls ELSE derivative_calls

\* The positions of a run inside the batch of a stage, its chain excluded.
InBatch(stage, p) ==
    IF stage = "stage1" THEN p \in {"s1_loop", "s1_await", "s1_await_analysis"}
                        ELSE p \in {"s2_loop", "s2_await", "s2_await_analysis"}

\* C29: a step starts at most one collaborator invocation, which is then the
\* one in flight; if one was in flight before, the step is its return (its
\* answer is recorded in the results of the batch); an invocation of the batch
\* loop is for the call at the loop index (the call itself, or the analysis that
\* follows a planned download), and the loop index never goes back within a
\* batch, so invocations start in list order; an invocation of the Chain
\* Resolver starts only when the loop index has passed the last planned call.
C29_OneInvocationAtATime ==
    [][/\ invocations' # invocations =>
              LET v == invocations'[Len(invocations')]
                  calls == BatchCalls(v.stage)
              IN  /\ invocations' = Append(invocations, v)
                  /\ Awaiting(pc')
                  /\ Awaiting(pc) =>
                         IF v.stage = "stage1" THEN initial_results' # initial_results
                                               ELSE derivative_results' # derivative_results
                  /\ v.by = "planned" =>
                         /\ InBatch(v.stage, pc) /\ InBatch(v.stage, pc')
                         /\ i < Len(calls) /\ i' = i
                         /\ \/ /\ ~Awaiting(pc)
                               /\ v.platform = Lower(calls[i + 1].platform)
                               /\ v.tool_name = calls[i + 1].tool_name
                            \/ /\ Awaiting(pc)
                               /\ Lower(calls[i + 1].platform) = <<"tiktok">>
                               /\ calls[i + 1].tool_name = DownloadVideo
                               /\ v.platform = <<"contentunderstanding">>
                               /\ v.tool_name = AnalyzeLocalVideo
                  /\ v.by = "chain" =>
                         /\ v.stage = caller
                         /\ ~InBatch(v.stage, pc)
                         /\ i = Len(calls)
       /\ \A stage \in {"stage1", "stage2"} :
              (InBatch(stage, pc) /\ InBatch(stage, pc')) => i' \in {i, i + 1}]_vars

\* The Chain Resolver's download is in flight after both planned calls of the
\* Stage 1 batch were invoked, in list order, and have answered.
C29_Witness ==
    /\ pc = "chain_await_download" /\ caller = "stage1"
    /\ Len(initial_calls) = 2 /\ i = 2
    /\ Len(invocations) = 3
    /\ \A n \in 1..2 :
           /\ invocations[n].by = "planned"
           /\ invocations[n].tool_name = initial_calls[n].tool_name
    /\ initial_calls[1].tool_name # initial_calls[2].tool_name
    /\ invocations[3].by = "chain"


\* The status values the specification lists for a stage sub-record.
StatusEnum ==
    {"pending", "completed_direct_answer", "completed_with_calls",
     "completed_no_action_plan", "completed_pending_download_analysis",
     "completed_no_effective_calls", "failed"}

\* C30: at every moment of a run the status of each stage sub-record that
\* exists is one of the listed values.
C30_StatusInEnum ==
    \A status \in {stage1_status, stage2_status, stage3_status} :
        status # "absent" => status \in StatusEnum


\* The invocations of tool t the Chain Resolver made in the run, as positions.
ChainInvocationsOf(t) ==
    {n \in 1..Len(invocations) : invocations[n].by = "chain" /\ invocations[n].tool_name = t}

\* C31: over a whole run the Chain Resolver makes at most one download and at
\* most one analysis: called after the derivative batch, it does not repeat a
\* download or an analysis the initial stage already recorded.
C31_ChainOncePerRun ==
    /\ Cardinality(ChainInvocationsOf(DownloadByUrl)) <= 1
    /\ Cardinality(ChainInvocationsOf(AnalyzeLocalVideo)) <= 1


\* The result mapping of a batch.
BatchResults(stage) == IF stage = "stage1" THEN initial_results ELSE derivative_results

\* The keys of mapping m that planned calls wrote: all but the Chain Resolver's.
PlannedKeys(m) == Keys(m) \ {AutoDownloadKey, AutoAnalysisKey}

\* C32: a planned call writes its outcome under keys no earlier call of the run
\* wrote: a step of a batch loop that writes to the batch's mapping keeps every
\* entry the mapping had, key and value, and the keys the planned calls of the
\* two batches wrote are disjoint, so collating the mappings loses no outcome.
C32_ResultKeysUnique ==
    /\ [](PlannedKeys(initial_results) \cap PlannedKeys(derivative_results) = {})
    /\ [][\A stage \in {"stage1", "stage2"} :
             (InBatch(stage, pc) /\ BatchResults(stage)' # BatchResults(stage)) =>
                 /\ Len(BatchResults(stage)') > Len(BatchResults(stage))
                 /\ \A n \in 1..Len(BatchResults(stage)) :
                        BatchResults(stage)'[n] = BatchResults(stage)[n]]_vars


\* C33: a consultation of the oracle suspends the run: the step that makes the
\* consultation leaves the run waiting, with nothing of the reply taken in yet
\* (statuses, errors, plans and answers as before), so that steps of other
\* requests can come between the consultation and the use of its reply.
C33_ConsultationSuspends ==
    [][consulted' # consulted =>
           UNCHANGED <<stage_vars, plan_vars, final_result, final_gpt_response>>]_vars


\* The Planner's reply carried a non-blank direct answer next to a non-empty call list.
BothGiven == NonBlankStr(parsed_direct_answer) /\ initial_calls # << >>

\* The run is past Stage 3.
PastStage3 == pc \in {"redis", "redis_expire", "done"}

\* Call n of the initial batch was handed to its collaborator.
Stage1Dispatched(n) ==
    \E m \in 1..Len(invocations) :
        /\ invocations[m].by = "planned" /\ invocations[m].stage = "stage1"
        /\ invocations[m].platform = Lower(initial_calls[n].platform)
        /\ invocations[m].tool_name = initial_calls[n].tool_name

\* C34: when the Planner's reply carries both a non-blank direct answer and a
\* non-empty call list, the calls win: once the run is past Stage 3 every valid
\* call of the list was dispatched, the Derivative Planner and the Synthesizer
\* were consulted after the Planner, and the final answer is the Synthesizer's
\* outcome (its text, or its failure message), not the direct answer.
C34_CallsOverrideDirectAnswer ==
    (BothGiven /\ PastStage3) =>
        /\ \A n \in 1..Len(initial_calls) :
               (initial_calls[n].kind = "dict" /\ Truthy(initial_calls[n].platform)
                    /\ Truthy(initial_calls[n].tool_name) /\ Configured(initial_calls[n].platform))
                   => Stage1Dispatched(n)
        /\ consulted = <<"planner", "derivative", "synthesizer">>
        /\ stage3_status \in {"completed", "failed"}
        /\ final_result = IF stage3_status = "completed" THEN final_gpt_response ELSE Stage3ErrorMsg
        /\ final_result # parsed_direct_answer

\* The same for the runs whose Stage 1 did not fail.
C34_CallsOverrideUnlessStage1Fails ==
    stage1_status # "failed" => C34_CallsOverrideDirectAnswer


\* The run is past Stage 2.
PastStage2 == pc = "stage3" \/ PastStage3

\* The invocations a stage made, planned or by the Chain Resolver, as positions.
InvocationsOfStage(stage) == {n \in 1..Len(invocations) : invocations[n].stage = stage}

\* C35: when the Planner's reply parses, has an empty call list and no non-blank
\* direct answer, the step that takes the reply in ends Stage 1 with status
\* completed_no_action_plan and invokes nothing; in such a run Stage 1 never
\* invokes a collaborator or the Chain Resolver and records no result, by the end
\* of Stage 2 the Derivative Planner was consulted next after the Planner, and
\* by the end of Stage 3 the Synthesizer was consulted after it.
C35_NoActionPlanStillPlans ==
    /\ [][(pc = "stage1" /\ pc' # "stage1" /\ stage1_status' # "failed"
               /\ initial_calls' = << >> /\ ~NonBlankStr(parsed_direct_answer'))
              => /\ stage1_status' = "completed_no_action_plan"
                 /\ pc' = "stage2"
                 /\ invocations' = invocations /\ initial_results' = initial_results]_vars
    /\ [](stage1_status = "completed_no_action_plan" =>
              /\ InvocationsOfStage("stage1") = {}
              /\ initial_results = << >>
              /\ PastStage2 => (Len(consulted) >= 2 /\ SubSeq(consulted, 1, 2) = <<"planner", "derivative">>)
              /\ PastStage3 => consulted = <<"planner", "derivative", "synthesizer">>)

\* A run without an action plan that consulted both later oracles and whose
\* Derivative Planner had a collaborator invoked.
C35_Witness ==
    /\ stage1_status = "completed_no_action_plan"
    /\ pc = "done"
    /\ consulted = <<"planner", "derivative", "synthesizer">>
    /\ InvocationsOfStage("stage1") = {} /\ InvocationsOfStage("stage2") # {}


\* No run, tracked or suspended, stands between its push and its expiry command.
NoWriteInFlight == pc # "redis_expire" /\ peer.pc # "redis_expire"

\* C36: every session present in the store has an expiry set, so that no session
\* lives forever; this also after a history write whose push succeeded and whose
\* expiry command failed.  Stated for the states in which no history write is
\* half-way between its two commands.
C36_EverySessionExpires ==
    NoWriteInFlight => \A k \in SessionKeys : store[k] # << >> => expiry[k] > 0


\* C37: for every limit L >= 0 a read that succeeds returns at most L entries;
\* with limit 0 it returns the empty history.
C37_ReadAtMostLimit ==
    [][\A q \in Queries, limit \in Limits :
           (GetChatHistory(q[1], q[2], limit, "ok") /\ response'.status = 200) =>
               /\ Len(response'.history) <= limit
               /\ limit = 0 => response'.history = << >>]_vars


\* The note a run leaves when it finds no store client.
NoClientNote == "Redis client not available"

\* C38: the store connection is made once, at process start, and never again: no
\* step changes whether the process holds a client.  In a process that started
\* without one, whatever the store would answer by now, a run at its history
\* write skips it and leaves the note, a read, an enumeration and a delete answer
\* with the unavailable error (503), and no step changes a session, an expiry
\* or the state of an enumeration.
C38_NoClientForLife ==
    [][/\ redis_client' = redis_client
       /\ ~redis_client =>
              /\ store' = store /\ expiry' = expiry /\ index' = index
              /\ (pc = "redis" /\ pc' # pc) =>
                     (pc' = "done" /\ redis_log' = Append(redis_log, NoClientNote))
              /\ \A q \in Queries, limit \in Limits, outcome \in StoreOutcomes :
                     GetChatHistory(q[1], q[2], limit, outcome) =>
                         response' = Response("chat_history", 503, << >>, << >>, << >>)
              /\ \A order \in Orders(PresentKeys), outcome \in StoreOutcomes :
                     IndexKeys(order, outcome) =>
                         response' = Response("chat_history_index", 503, << >>, << >>, << >>)
              /\ \A k \in SessionKeys \cup {UnknownKey}, outcome \in StoreOutcomes :
                     DeleteSession(k, outcome) => response'.status = 503
              /\ response' # response => response'.status = 503]_vars

\* A process without a client, its store holding a session: the run skipped its
\* history write with the note, and the delete of that session was refused.
C38_Witness ==
    /\ ~redis_client
    /\ pc = "done" /\ redis_log = <<NoClientNote>>
    /\ response.op = "delete_session" /\ response.status = 503
    /\ response.session_key \in PresentKeys

====
